---- MODULE Spec2Model ----
(***************************************************************************)
(* Model of the reactive store (state/store.js), the memoized selectors    *)
(* (state/selectors.js) and the layer pipeline (layers/index.js,           *)
(* ui/controls.js, main.js) of mrta83/mapping-prototype.                    *)
(*                                                                         *)
(* Conventions                                                             *)
(*  - A dotted key 'cluster.radius' is the sequence of its segments,       *)
(*    <<"cluster", "radius">>, which is what key.split('.') yields.         *)
(*  - A JavaScript primitive is a record [t, n, s]: its typeof tag, its    *)
(*    numeric payload and its string payload.  Numbers are kept in tenths  *)
(*    (0.8 is 8, 50 is 500) so that the fractional defaults and validator  *)
(*    bounds stay integers.  NaN is not in the value domain.                *)
(*  - An array or a GeoJSON object carries the identity of its allocation  *)
(*    in the field ref, so that record equality is reference equality.     *)
(*  - A nested settings object (filters, cluster, ...) is a record without *)
(*    a field t; it is always mutated in place by the code.                *)
(***************************************************************************)
EXTENDS Integers, Sequences, FiniteSets, TLC

VARIABLES
  state,                 \* the module-level `state` object of store.js
  subscribers,           \* Map<string, Set<Function>>: key -> callbacks, in insertion order
  batchMode,             \* let batchMode
  pendingNotifications,  \* Map<string, *> in insertion order: sequence of [key, value]
  calls,                 \* what the subscribers saw during the last operation
  pc,                    \* "idle", or "fn" while the function given to batch() runs
  fnWrites,              \* the writes made so far by the running batch function
  lastOp,                \* the last operation called, its arguments and its outcome
  ops,                   \* number of operations called so far
  selectors,             \* cachedDeps and cachedResult of each memoized selector
  returned,              \* what the last selector call returned
  seen,                  \* the selector's inputs at its last call, and what happened since
  storage,               \* the localStorage entry 'map_app_state'
  engine,                \* the rendering engine: its style, its 'points' source, its layers
  unsubscribed,          \* the subscriptions whose unsubscribe function was called
  stateHistory,          \* const stateHistory
  historyEnabled,        \* let historyEnabled
  timers                 \* the pending timers, enableAutoPersist._timeout, timers made so far

selVars == <<selectors, returned, seen, storage>>

obsVars == <<unsubscribed, stateHistory, historyEnabled, timers>>

vars == <<state, subscribers, batchMode, pendingNotifications, calls, pc, fnWrites, lastOp, ops,
          selVars, engine, obsVars>>

----------------------------------------------------------------------------
\* Bounds of the model

MaxOps == 3

MaxBatchWrites == 3

MaxSelOps == 4

MaxPipeOps == 3

\* Calls made on the store and its storage entry in one run.
MaxPerOps == 4

\* Writes of the data and the filters and calls of the selectors in one run.
MaxDerOps == 4

\* Calls of validateState and setStateValidated in one run.
MaxValOps == 2

\* Calls of subscribe, of the functions it returned and of the mutators in one run.
MaxSubOps == 4

\* Calls of the history functions and of the mutators in one run.
MaxHisOps == 4

\* Calls of enableAutoPersist and of the mutators in one run.
MaxAutoOps == 4

\* Calls of the layer selectors and of the mutators in one run.
MaxCfgOps == 4

\* Calls of setState and getState on dotted paths in one run.
MaxPathOps == 3

\* Calls made inside and outside batch functions in one run.
MaxNestOps == 4

\* Calls of setRawData, setFilter and getFilteredData in one run, rawData being
\* an array or not.
MaxThrowOps == 5

\* Zoom events and mode choices in one run.
MaxZoomOps == 4

\* Calls of changeStyle and of the handlers in one run with overlapping style changes.
MaxStyleOps == 4

\* Regenerations, filter settings and comparisons of the two filters in one run.
MaxFilOps == 3

----------------------------------------------------------------------------
\* JavaScript values

Num(n) == [t |-> "number", n |-> n, s |-> ""]

Str(s) == [t |-> "string", n |-> 0, s |-> s]

Bool(b) == [t |-> "boolean", n |-> (IF b THEN 1 ELSE 0), s |-> ""]

BigInt(n) == [t |-> "bigint", n |-> n, s |-> ""]

Null == [t |-> "null", n |-> 0, s |-> ""]

Undefined == [t |-> "undefined", n |-> 0, s |-> ""]

Arr(ref, items) == [t |-> "array", ref |-> ref, items |-> items]

Ref(key) == [t |-> "ref", key |-> key]

EmptyObject == [x \in {} |-> Undefined]

IsObject(x) == "t" \notin DOMAIN x

Prop(obj, name) == IF IsObject(obj) /\ name \in DOMAIN obj THEN obj[name] ELSE Undefined

Range(seq) == {seq[i] : i \in 1..Len(seq)}

Assign(obj, name, v) == [x \in (DOMAIN obj) \cup {name} |-> IF x = name THEN v ELSE obj[x]]

IsArray(x) == "t" \in DOMAIN x /\ x.t = "array"

Nullish(x) == x = Null \/ x = Undefined

\* a === b: arrays are compared by identity, primitives by value.
StrictEquals(a, b) == IF IsArray(a) /\ IsArray(b) THEN a.ref = b.ref ELSE a = b

\* The position named by an array index key (0 when the key is no index in use).
ToIndex(part) == CASE part = "0" -> 1 [] part = "1" -> 2 [] part = "2" -> 3 [] OTHER -> 0

\* x[part] for x neither null nor undefined; of an array only the elements are
\* read, and a primitive has no property the model reads.
Member(x, part) ==
  IF IsObject(x) THEN Prop(x, part)
  ELSE IF IsArray(x) /\ ToIndex(part) \in 1..Len(x.items) THEN x.items[ToIndex(part)]
  ELSE Undefined

\* x[part] = v succeeds on an object and on an array element; on a primitive it
\* throws a TypeError, the modules being strict code.
CanStore(x, part) == IsObject(x) \/ (IsArray(x) /\ ToIndex(part) \in 1..Len(x.items))

PutMember(x, part, v) ==
  IF IsObject(x) THEN Assign(x, part, v)
  ELSE [x EXCEPT !.items = [@ EXCEPT ![ToIndex(part)] = v]]

----------------------------------------------------------------------------
\* config/constants.js (numbers in tenths)

CLUSTER_RADIUS == 500

CLUSTER_MAX_ZOOM == 140

CLUSTER_OPACITY == 8

HEATMAP_INTENSITY == 10

HEATMAP_RADIUS == 200

HEATMAP_OPACITY == 8

MARKER_BASE_SIZE == 8

MODES == {Str("clusters"), Str("heatmap"), Str("markers")}

----------------------------------------------------------------------------
\* state/store.js: the state object and its subscribers

InitialState ==
  [ map |-> Null,
    popup |-> Null,
    mode |-> Str("clusters"),
    autoSwitchedToCluster |-> Bool(FALSE),
    rawData |-> Arr(0, <<>>),
    geoJSON |-> Null,
    filters |-> [volume |-> Str("all"), category |-> Str("all")],
    cluster |-> [sizeMetric |-> Str("count"), colorMetric |-> Str("weight"),
                 radius |-> Num(CLUSTER_RADIUS), maxZoom |-> Num(CLUSTER_MAX_ZOOM),
                 opacity |-> Num(CLUSTER_OPACITY)],
    heatmap |-> [metric |-> Str("count"), intensity |-> Num(HEATMAP_INTENSITY),
                 radius |-> Num(HEATMAP_RADIUS), opacity |-> Num(HEATMAP_OPACITY)],
    markers |-> [icon |-> Str("recycling-bin"), baseSize |-> Num(MARKER_BASE_SIZE),
                 scaleByVolume |-> Bool(TRUE)],
    colors |-> [primary |-> Str("#3b82f6"), secondary |-> Str("#ef4444")] ]

RECURSIVE walk(_, _, _)
walk(value, parts, i) ==
  IF i > Len(parts) THEN value
  ELSE IF value = Undefined \/ value = Null THEN Undefined
  ELSE walk(Member(value, parts[i]), parts, i + 1)

getStateIn(st, key) == walk(st, key, 1)

getState(key) == getStateIn(state, key)

RefOf(x) == IF "ref" \in DOMAIN x THEN x.ref ELSE 0

IsRef(value) == "t" \in DOMAIN value /\ value.t = "ref"

Deref(st, value) == IF IsRef(value) THEN getStateIn(st, value.key) ELSE value

\* The store as one value, so that the functions of store.js are operators on it:
\* the state object, the batch flag, the pending map, the log of subscriber calls,
\* whether a batch function is running, and whether the call threw.
Store ==
  [ state |-> state,
    batchMode |-> batchMode,
    pendingNotifications |-> pendingNotifications,
    calls |-> <<>>,
    fnRunning |-> (pc = "fn"),
    threw |-> FALSE ]

\* A map that forgets its keys: every set adds an entry.
MapSetAppending(m, key, value) == Append(m, [key |-> key, value |-> value])

\* Map.prototype.set on an insertion-ordered map: an existing key keeps its place.
MapSet(m, key, value) ==
  IF \E i \in 1..Len(m) : m[i].key = key
  THEN [i \in 1..Len(m) |-> IF m[i].key = key THEN [key |-> key, value |-> value] ELSE m[i]]
  ELSE Append(m, [key |-> key, value |-> value])

Callbacks(key) == IF key \in DOMAIN subscribers THEN subscribers[key] ELSE <<>>

\* subscribe(key, callback) on the map subs: the Set of the key keeps one entry
\* per callback, in the order of the first add.
subscribe(subs, key, callback) ==
  IF key \notin DOMAIN subs
    THEN [k \in DOMAIN subs \cup {key} |-> IF k = key THEN <<callback>> ELSE subs[k]]
  ELSE IF callback \in Range(subs[key]) THEN subs
  ELSE [subs EXCEPT ![key] = Append(@, callback)]

\* An unsubscribe function that empties the Set of the key.
unsubscribeAll(subs, key, callback) == [subs EXCEPT ![key] = << >>]

\* The function subscribe returns: subscribers.get(key).delete(callback).
unsubscribe(subs, key, callback) ==
  [subs EXCEPT ![key] = SelectSeq(@, LAMBDA cb : cb # callback)]

\* One subscriber call: which callback, under which subscription, with which
\* argument, and what the callback can read from the store while it runs.
Call(S, kind, sub, cb, key, arg) ==
  [ cb |-> cb, kind |-> kind, sub |-> sub, key |-> key, arg |-> arg,
    seen |-> getStateIn(S.state, key),
    rawRef |-> RefOf(S.state.rawData),
    geoRef |-> RefOf(S.state.geoJSON),
    fnRunning |-> S.fnRunning ]

fireNotification(S, key, value) ==
  LET exact == Callbacks(key)
      parentKey == <<key[1]>>
      parent == IF Len(key) > 1 THEN Callbacks(parentKey) ELSE <<>>
      wildcard == Callbacks(<<"*">>)
      v == Deref(S.state, value)
  IN [S EXCEPT !.calls = @
        \o [i \in 1..Len(exact) |-> Call(S, "exact", key, exact[i], key, v)]
        \o [i \in 1..Len(parent) |->
              Call(S, "parent", parentKey, parent[i], key, getStateIn(S.state, parentKey))]
        \o [i \in 1..Len(wildcard) |->
              Call(S, "wildcard", <<"*">>, wildcard[i], key, [key |-> key, value |-> v])]]

notify(S, key, value) ==
  IF S.batchMode
    THEN [S EXCEPT !.pendingNotifications = MapSet(@, key, value)]
    ELSE fireNotification(S, key, value)

\* The loop and the assignment of setState from parts[i] on, target being node:
\* the node after it, whether it threw and whether it stored the value.
RECURSIVE writePath(_, _, _, _)
writePath(node, parts, i, value) ==
  LET part == parts[i]
      made == Member(node, part) = Undefined
      child == IF made THEN EmptyObject ELSE Member(node, part)
      below == writePath(child, parts, i + 1, value)
  IN IF Nullish(node) THEN [node |-> node, threw |-> TRUE, changed |-> FALSE]
     ELSE IF i = Len(parts)
       THEN IF StrictEquals(Member(node, part), value)
              THEN [node |-> node, threw |-> FALSE, changed |-> FALSE]
            ELSE IF CanStore(node, part)
              THEN [node |-> PutMember(node, part, value), threw |-> FALSE, changed |-> TRUE]
            ELSE [node |-> node, threw |-> TRUE, changed |-> FALSE]
     ELSE IF made /\ ~CanStore(node, part)
       THEN [node |-> node, threw |-> TRUE, changed |-> FALSE]
     ELSE [node |-> IF made \/ below.node # child THEN PutMember(node, part, below.node) ELSE node,
           threw |-> below.threw, changed |-> below.changed]

setState(S, key, value) ==
  LET r == writePath(S.state, key, 1, value)
  IN IF r.threw THEN [S EXCEPT !.state = r.node, !.threw = TRUE]
     ELSE IF r.changed THEN notify([S EXCEPT !.state = r.node], key, value)
     ELSE [S EXCEPT !.state = r.node]

\* setMode without its comparison of the old and new value.
setModeUnguarded(S, mode) == notify([S EXCEPT !.state.mode = mode], <<"mode">>, mode)

setMode(S, mode) ==
  IF S.state.mode # mode
    THEN notify([S EXCEPT !.state.mode = mode], <<"mode">>, mode)
    ELSE S

setFilter(S, filterType, value) ==
  IF S.state.filters[filterType] # value
    THEN LET S1 == [S EXCEPT !.state.filters[filterType] = value]
         IN notify(notify(S1, <<"filters", filterType>>, value),
                   <<"filters">>, Ref(<<"filters">>))
    ELSE S

\* setClusterSetting announcing the change before it stores the value.
setClusterSettingNotifyFirst(S, key, value) ==
  IF Prop(S.state.cluster, key) # value
    THEN [notify(S, <<"cluster", key>>, value) EXCEPT !.state.cluster = Assign(@, key, value)]
    ELSE S

setClusterSetting(S, key, value) ==
  IF Prop(S.state.cluster, key) # value
    THEN notify([S EXCEPT !.state.cluster = Assign(@, key, value)], <<"cluster", key>>, value)
    ELSE S

setHeatmapSetting(S, key, value) ==
  IF Prop(S.state.heatmap, key) # value
    THEN notify([S EXCEPT !.state.heatmap = Assign(@, key, value)], <<"heatmap", key>>, value)
    ELSE S

setMarkerSetting(S, key, value) ==
  IF Prop(S.state.markers, key) # value
    THEN notify([S EXCEPT !.state.markers = Assign(@, key, value)], <<"markers", key>>, value)
    ELSE S

setColor(S, key, value) ==
  IF Prop(S.state.colors, key) # value
    THEN notify([S EXCEPT !.state.colors = Assign(@, key, value)], <<"colors", key>>, value)
    ELSE S

setMap(S, map) == notify([S EXCEPT !.state.map = map], <<"map">>, map)

setRawData(S, data) == notify([S EXCEPT !.state.rawData = data], <<"rawData">>, data)

setGeoJSON(S, geoJSON) == notify([S EXCEPT !.state.geoJSON = geoJSON], <<"geoJSON">>, geoJSON)

----------------------------------------------------------------------------
\* state/store.js: validation

\* The characters of the strings the model tests against the colour pattern.
Chars(s) ==
  CASE s = "#3b82f6" -> <<"#", "3", "b", "8", "2", "f", "6">>
    [] s = "#ef4444" -> <<"#", "e", "f", "4", "4", "4", "4">>
    [] s = "#00ff00" -> <<"#", "0", "0", "f", "f", "0", "0">>
    [] s = "#FF00FF" -> <<"#", "F", "F", "0", "0", "F", "F">>
    [] s = "#ff0000" -> <<"#", "f", "f", "0", "0", "0", "0">>
    [] s = "red" -> <<"r", "e", "d">>
    [] s = "#fff" -> <<"#", "f", "f", "f">>
    [] s = "#ff00000" -> <<"#", "f", "f", "0", "0", "0", "0", "0">>
    [] s = "#ff000g" -> <<"#", "f", "f", "0", "0", "0", "g">>
    [] s = "ff00000" -> <<"f", "f", "0", "0", "0", "0", "0">>
    [] s = "" -> << >>

HexDigits ==
  {"0", "1", "2", "3", "4", "5", "6", "7", "8", "9",
   "a", "b", "c", "d", "e", "f", "A", "B", "C", "D", "E", "F"}

\* /^#[0-9A-Fa-f]{6}$/.test(value)
MatchesHexColor(s) ==
  LET c == Chars(s)
  IN Len(c) = 7 /\ c[1] = "#" /\ \A i \in 2..7 : c[i] \in HexDigits

\* A range check that looks at the type only.
InRangeTypeOnly(value, lo, hi) == value.t = "number"

InRange(value, lo, hi) == value.t = "number" /\ value.n >= lo /\ value.n <= hi

ValidatedKeys ==
  { <<"mode">>, <<"filters", "volume">>, <<"filters", "category">>,
    <<"cluster", "radius">>, <<"cluster", "maxZoom">>, <<"cluster", "opacity">>,
    <<"heatmap", "intensity">>, <<"heatmap", "radius">>, <<"heatmap", "opacity">>,
    <<"markers", "baseSize">>, <<"markers", "scaleByVolume">>,
    <<"colors", "primary">>, <<"colors", "secondary">> }

validators(key, value) ==
  CASE key = <<"mode">> -> value \in MODES
    [] key = <<"filters", "volume">> ->
         value \in {Str("all"), Str("small"), Str("medium"), Str("large")}
    [] key = <<"filters", "category">> -> value.t = "string"
    [] key = <<"cluster", "radius">> -> InRange(value, 100, 2000)
    [] key = <<"cluster", "maxZoom">> -> InRange(value, 0, 220)
    [] key = <<"cluster", "opacity">> -> InRange(value, 0, 10)
    [] key = <<"heatmap", "intensity">> -> InRange(value, 1, 50)
    [] key = <<"heatmap", "radius">> -> InRange(value, 50, 1000)
    [] key = <<"heatmap", "opacity">> -> InRange(value, 0, 10)
    [] key = <<"markers", "baseSize">> -> InRange(value, 1, 30)
    [] key = <<"markers", "scaleByVolume">> -> value.t = "boolean"
    [] key = <<"colors", "primary">> -> value.t = "string" /\ MatchesHexColor(value.s)
    [] key = <<"colors", "secondary">> -> value.t = "string" /\ MatchesHexColor(value.s)

\* JSON.stringify throws a TypeError on a BigInt.
JSONStringifyThrows(value) == "t" \in DOMAIN value /\ value.t = "bigint"

\* Keys that validators, an object literal, does not define but inherits from
\* Object.prototype; validators[key] finds the inherited function.
InheritedKeys == {<<"toString">>, <<"isPrototypeOf">>, <<"hasOwnProperty">>}

\* validator(value) for an inherited function, called without a receiver in
\* strict code: toString yields '[object Undefined]', isPrototypeOf yields
\* false for a value that is no object, and converting the missing receiver
\* to an object throws a TypeError otherwise.
inheritedValidator(key, value) ==
  CASE key = <<"toString">> -> [truthy |-> TRUE, threw |-> FALSE]
    [] key = <<"isPrototypeOf">> ->
         IF IsObject(value) \/ IsArray(value)
           THEN [truthy |-> FALSE, threw |-> TRUE]
           ELSE [truthy |-> FALSE, threw |-> FALSE]
    [] key = <<"hasOwnProperty">> -> [truthy |-> FALSE, threw |-> TRUE]

\* The verdict, or the exception raised by the validator or while the error
\* message is built.
validateState(key, value) ==
  LET isValid == IF key \in InheritedKeys THEN inheritedValidator(key, value)
                 ELSE [truthy |-> validators(key, value), threw |-> FALSE]
  IN IF key \notin ValidatedKeys \cup InheritedKeys THEN [valid |-> TRUE, threw |-> FALSE]
     ELSE IF isValid.threw THEN [valid |-> FALSE, threw |-> TRUE]
     ELSE IF isValid.truthy THEN [valid |-> TRUE, threw |-> FALSE]
     ELSE [valid |-> FALSE, threw |-> JSONStringifyThrows(value)]

\* The store after the call, and the value returned (none when the call threw).
setStateValidated(S, key, value) ==
  LET validation == validateState(key, value)
  IN IF validation.threw THEN [store |-> [S EXCEPT !.threw = TRUE], ret |-> FALSE]
     ELSE IF ~validation.valid THEN [store |-> S, ret |-> FALSE]
     ELSE [store |-> setState(S, key, value), ret |-> TRUE]

----------------------------------------------------------------------------
\* state/selectors.js

\* The closure variables of createSelector before the first call.
NoCache == [hasDeps |-> FALSE, cachedDeps |-> <<>>, cachedResult |-> Null]

InitialSelectors ==
  [filteredData |-> NoCache, filteredCount |-> NoCache, filteredGeoJSON |-> NoCache,
   dataStats |-> NoCache, filteredBounds |-> NoCache, activeLayerIds |-> NoCache,
   currentLayerConfig |-> NoCache]

NoResult == [result |-> Null, computed |-> FALSE]

\* depsEqual looking at the lengths only.
depsEqualByLength(cachedDeps, currentDeps) == Len(cachedDeps) = Len(currentDeps)

\* cachedDeps.length === currentDeps.length && cachedDeps.every((dep, i) => dep === currentDeps[i])
depsEqual(cachedDeps, currentDeps) ==
  /\ Len(cachedDeps) = Len(currentDeps)
  /\ \A i \in 1..Len(cachedDeps) : StrictEquals(cachedDeps[i], currentDeps[i])

\* One call of the function createSelector returns: cache is its closure,
\* currentDeps what dependencyFn() yields and fresh what fn() would yield.
memoized(cache, currentDeps, fresh) ==
  IF cache.hasDeps /\ depsEqual(cache.cachedDeps, currentDeps)
    THEN [cache |-> cache, result |-> cache.cachedResult, computed |-> FALSE]
    ELSE [cache |-> [hasDeps |-> TRUE, cachedDeps |-> currentDeps, cachedResult |-> fresh],
          result |-> fresh, computed |-> TRUE]

\* The same call for a selector whose fn() may throw: cachedDeps = currentDeps is
\* assigned before fn() runs, cachedResult only after it has returned.
createSelector(cache, currentDeps, fresh, fnThrows) ==
  IF cache.hasDeps /\ depsEqual(cache.cachedDeps, currentDeps)
    THEN [cache |-> cache, result |-> cache.cachedResult, computed |-> FALSE, threw |-> FALSE]
  ELSE IF fnThrows
    THEN [cache |-> [hasDeps |-> TRUE, cachedDeps |-> currentDeps,
                     cachedResult |-> cache.cachedResult],
          result |-> Undefined, computed |-> TRUE, threw |-> TRUE]
  ELSE [cache |-> [hasDeps |-> TRUE, cachedDeps |-> currentDeps, cachedResult |-> fresh],
        result |-> fresh, computed |-> TRUE, threw |-> FALSE]

\* The volume test of getFilteredData with the second bucket starting at 3.
volumeMatchFrom3(volumeFilter, volume) ==
  \/ volumeFilter = Str("small") /\ volume.n <= 30
  \/ volumeFilter = Str("medium") /\ volume.n >= 30 /\ volume.n <= 60
  \/ volumeFilter = Str("large") /\ volume.n > 60

volumeMatch(volumeFilter, volume) ==
  \/ volumeFilter = Str("small") /\ volume.n <= 30
  \/ volumeFilter = Str("medium") /\ volume.n > 30 /\ volume.n <= 60
  \/ volumeFilter = Str("large") /\ volume.n > 60

\* The predicate getFilteredData gives to rawData.filter.
keepsPoint(filters, point) ==
  /\ filters.volume # Str("all") => volumeMatch(filters.volume, point.recyclingVolume)
  /\ filters.category # Str("all") => point.category = filters.category

\* fn() of getFilteredData: a new array, of identity id.
computeFilteredData(st, id) ==
  Arr(id, SelectSeq(st.rawData.items, LAMBDA point : keepsPoint(st.filters, point)))

filteredDataDeps(st) == <<st.rawData, st.filters.volume, st.filters.category>>

\* getFilteredData(): the selectors after the call, the array returned and
\* whether fn ran.
getFilteredData(sel, st, id) ==
  LET r == memoized(sel.filteredData, filteredDataDeps(st), computeFilteredData(st, id))
  IN [selectors |-> [sel EXCEPT !.filteredData = r.cache],
      result |-> r.result, computed |-> r.computed]

\* getFilteredData() for a rawData of any kind: rawData.filter throws a
\* TypeError unless rawData is an array.
getFilteredDataOfAny(sel, st, id) ==
  LET r == createSelector(sel.filteredData, filteredDataDeps(st),
                          IF IsArray(st.rawData) THEN computeFilteredData(st, id) ELSE Undefined,
                          ~IsArray(st.rawData))
  IN [selectors |-> [sel EXCEPT !.filteredData = r.cache],
      result |-> r.result, computed |-> r.computed, threw |-> r.threw]

\* getFilteredCount(): its fn calls getFilteredData.
getFilteredCount(sel, st, id) ==
  LET inner == getFilteredData(sel, st, id)
      r == memoized(sel.filteredCount, filteredDataDeps(st), Num(10 * Len(inner.result.items)))
  IN [selectors |-> IF r.computed THEN [inner.selectors EXCEPT !.filteredCount = r.cache] ELSE sel,
      result |-> r.result, computed |-> r.computed]

\* The feature getFilteredGeoJSON makes of a point: a Point geometry at
\* [lng, lat]; weight is recyclingVolume / 10.
toFeature(point) ==
  [coordinates |-> <<point.lng, point.lat>>,
   id |-> point.id, category |-> point.category, recyclingVolume |-> point.recyclingVolume,
   weight |-> Num(point.recyclingVolume.n \div 10)]

FeatureCollection(ref, features) == [t |-> "object", ref |-> ref, features |-> features]

\* getFilteredGeoJSON(): its fn calls getFilteredData and yields null for no point.
getFilteredGeoJSON(sel, st, id) ==
  LET inner == getFilteredData(sel, st, id)
      points == inner.result.items
      fresh == IF Len(points) = 0 THEN Null
               ELSE FeatureCollection(id, [i \in 1..Len(points) |-> toFeature(points[i])])
      r == memoized(sel.filteredGeoJSON, filteredDataDeps(st), fresh)
  IN [selectors |-> IF r.computed THEN [inner.selectors EXCEPT !.filteredGeoJSON = r.cache] ELSE sel,
      result |-> r.result, computed |-> r.computed]

\* Math.round(part / whole * 100) for whole > 0.
RoundPercent(part, whole) == (200 * part + whole) \div (2 * whole)

\* (total / count).toFixed(1): the decimal string with one fraction digit, kept
\* as the number of tenths it spells; total is in tenths already.
ToFixed1(total, count) ==
  [t |-> "string", n |-> (2 * total + count) \div (2 * count), s |-> "toFixed(1)"]

RECURSIVE totalVolumeFrom(_, _)
totalVolumeFrom(points, i) ==
  IF i > Len(points) THEN 0
  ELSE points[i].recyclingVolume.n + totalVolumeFrom(points, i + 1)

CountWhere(points, Test(_)) == Num(10 * Len(SelectSeq(points, Test)))

\* The statistics that take every point of rawData for a filtered one.
computeDataStatsOfRawData(rawData, filteredData) ==
  IF Len(rawData) = 0
    THEN [total |-> Num(0), filtered |-> Num(0), filterPercentage |-> Num(1000),
          categories |-> EmptyObject,
          volumeDistribution |-> [small |-> Num(0), medium |-> Num(0), large |-> Num(0)],
          avgVolume |-> Num(0)]
    ELSE [total |-> Num(10 * Len(rawData)),
          filtered |-> Num(10 * Len(rawData)),
          filterPercentage |-> Num(1000),
          categories |-> EmptyObject,
          volumeDistribution |-> [small |-> Num(0), medium |-> Num(0), large |-> Num(0)],
          avgVolume |-> Num(0)]

\* fn() of getDataStats for the points rawData and the points filteredData.
computeDataStats(rawData, filteredData) ==
  IF Len(rawData) = 0
    THEN [total |-> Num(0), filtered |-> Num(0), filterPercentage |-> Num(1000),
          categories |-> EmptyObject,
          volumeDistribution |-> [small |-> Num(0), medium |-> Num(0), large |-> Num(0)],
          avgVolume |-> Num(0)]
    ELSE [total |-> Num(10 * Len(rawData)),
          filtered |-> Num(10 * Len(filteredData)),
          filterPercentage |-> Num(10 * RoundPercent(Len(filteredData), Len(rawData))),
          categories |->
            [c \in {filteredData[i].category.s : i \in 1..Len(filteredData)} |->
               CountWhere(filteredData, LAMBDA point : point.category.s = c)],
          volumeDistribution |->
            [small |-> CountWhere(filteredData, LAMBDA point : point.recyclingVolume.n <= 30),
             medium |-> CountWhere(filteredData, LAMBDA point :
                          point.recyclingVolume.n > 30 /\ point.recyclingVolume.n <= 60),
             large |-> CountWhere(filteredData, LAMBDA point : point.recyclingVolume.n > 60)],
          avgVolume |-> IF Len(filteredData) > 0
                          THEN ToFixed1(totalVolumeFrom(filteredData, 1), Len(filteredData))
                          ELSE Num(0)]

\* getDataStats(): its fn reads rawData and calls getFilteredData.
getDataStats(sel, st, id) ==
  LET inner == getFilteredData(sel, st, id)
      r == memoized(sel.dataStats, filteredDataDeps(st),
                    computeDataStats(st.rawData.items, inner.result.items))
  IN [selectors |-> IF r.computed THEN [inner.selectors EXCEPT !.dataStats = r.cache] ELSE sel,
      result |-> r.result, computed |-> r.computed]

\* The value minLng, maxLng, minLat and maxLat start from, beyond every
\* coordinate (in tenths of a degree).
Infinity == 100000

MathMin(a, b) == IF a < b THEN a ELSE b

MathMax(a, b) == IF a > b THEN a ELSE b

\* The forEach of getFilteredBounds from point i on.
RECURSIVE extendBounds(_, _, _)
extendBounds(box, points, i) ==
  IF i > Len(points) THEN box
  ELSE extendBounds([minLng |-> MathMin(box.minLng, points[i].lng.n),
                     maxLng |-> MathMax(box.maxLng, points[i].lng.n),
                     minLat |-> MathMin(box.minLat, points[i].lat.n),
                     maxLat |-> MathMax(box.maxLat, points[i].lat.n)], points, i + 1)

\* A bounds computation that yields a degenerate box for no point.
computeFilteredBoundsOfAny(filteredData, id) ==
  LET box == extendBounds([minLng |-> Infinity, maxLng |-> -Infinity,
                           minLat |-> Infinity, maxLat |-> -Infinity], filteredData, 1)
  IN Arr(id, << <<Num(box.minLng), Num(box.minLat)>>, <<Num(box.maxLng), Num(box.maxLat)>> >>)

\* fn() of getFilteredBounds for the points filteredData: null, or a new array
\* [[minLng, minLat], [maxLng, maxLat]] of identity id.
computeFilteredBounds(filteredData, id) ==
  LET box == extendBounds([minLng |-> Infinity, maxLng |-> -Infinity,
                           minLat |-> Infinity, maxLat |-> -Infinity], filteredData, 1)
  IN IF Len(filteredData) = 0 THEN Null
     ELSE Arr(id, << <<Num(box.minLng), Num(box.minLat)>>,
                     <<Num(box.maxLng), Num(box.maxLat)>> >>)

\* getFilteredBounds(): its fn calls getFilteredData.
getFilteredBounds(sel, st, id) ==
  LET inner == getFilteredData(sel, st, id)
      r == memoized(sel.filteredBounds, filteredDataDeps(st),
                    computeFilteredBounds(inner.result.items, id))
  IN [selectors |-> IF r.computed THEN [inner.selectors EXCEPT !.filteredBounds = r.cache] ELSE sel,
      result |-> r.result, computed |-> r.computed]

\* getActiveLayerIds(): its result depends on the mode alone.
\* LAYER_IDS[name]: the id, or undefined for a name the object does not have.
LAYER_IDS(name) ==
  CASE name = "CLUSTERS" -> Str("clusters")
    [] name = "CLUSTERS_GLOW" -> Str("clusters-glow")
    [] name = "CLUSTER_COUNT" -> Str("cluster-count")
    [] name = "UNCLUSTERED" -> Str("unclustered-point")
    [] name = "UNCLUSTERED_GLOW" -> Str("unclustered-point-glow")
    [] name = "HEATMAP" -> Str("heatmap")
    [] name = "MARKERS" -> Str("markers")
    [] name = "MARKERS_LABELS" -> Str("markers-labels")
    [] name = "BUILDINGS_3D" -> Str("3d-buildings")
    [] name = "SKY" -> Str("sky")
    [] OTHER -> Undefined

\* getAllLayerIds(): the array literal of the selectors module.
getAllLayerIds ==
  << LAYER_IDS("CLUSTERS"), LAYER_IDS("CLUSTERS_GLOW"), LAYER_IDS("CLUSTER_COUNT"),
     LAYER_IDS("UNCLUSTERED_POINT"), LAYER_IDS("UNCLUSTERED_GLOW"), LAYER_IDS("HEATMAP"),
     LAYER_IDS("MARKERS"), LAYER_IDS("MARKERS_GLOW") >>

getActiveLayerIds(st) ==
  CASE st.mode = Str("clusters") ->
         << "clusters", "clusters-glow", "cluster-count", "unclustered-point",
            "unclustered-point-glow" >>
    [] st.mode = Str("heatmap") -> << "heatmap" >>
    [] st.mode = Str("markers") -> << "markers", "markers-labels" >>
    [] OTHER -> << >>

\* The memoized selector getActiveLayerIds(): dependencyFn yields [getMode()],
\* fn a new array, of identity id.
activeLayerIds(sel, st, id) ==
  LET r == memoized(sel.activeLayerIds, <<st.mode>>, Arr(id, getActiveLayerIds(st)))
  IN [selectors |-> [sel EXCEPT !.activeLayerIds = r.cache],
      result |-> r.result, computed |-> r.computed]

\* { ...settings }: the copy getClusterSettings, getHeatmapSettings,
\* getMarkerSettings and getColors return, a new object of identity id.
CopyOf(id, settings) == [t |-> "object", ref |-> id, fields |-> settings]

\* dependencyFn of getCurrentLayerConfig: the mode and four new copies.
currentLayerConfigDeps(st, id) ==
  <<st.mode, CopyOf(id, st.cluster), CopyOf(id, st.heatmap), CopyOf(id, st.markers),
    CopyOf(id, st.colors)>>

\* { mode, ...settings, primary, secondary }
LayerConfig(mode, settings, colors) ==
  Assign(Assign(Assign(settings, "mode", IF "mode" \in DOMAIN settings
                                           THEN settings.mode ELSE mode),
                "primary", colors.primary),
         "secondary", colors.secondary)

\* fn() of getCurrentLayerConfig: a new object, of identity id.
computeCurrentLayerConfig(st, id) ==
  CopyOf(id, CASE st.mode = Str("clusters") -> LayerConfig(st.mode, st.cluster, st.colors)
               [] st.mode = Str("heatmap") -> LayerConfig(st.mode, st.heatmap, st.colors)
               [] st.mode = Str("markers") -> LayerConfig(st.mode, st.markers, st.colors)
               [] OTHER -> [mode |-> st.mode])

getCurrentLayerConfig(sel, st, id) ==
  LET r == memoized(sel.currentLayerConfig, currentLayerConfigDeps(st, id),
                    computeCurrentLayerConfig(st, id))
  IN [selectors |-> [sel EXCEPT !.currentLayerConfig = r.cache],
      result |-> r.result, computed |-> r.computed]

----------------------------------------------------------------------------
\* state/store.js: batch updates

batchEnter(S) == [S EXCEPT !.batchMode = TRUE, !.pendingNotifications = <<>>]

RECURSIVE firePending(_, _, _)
firePending(S, pending, i) ==
  IF i > Len(pending) THEN S
  ELSE firePending(fireNotification(S, pending[i].key, pending[i].value), pending, i + 1)

\* A finally block that leaves batch mode and forgets what is pending.
batchFinallyDroppingPending(S) == [S EXCEPT !.batchMode = FALSE, !.pendingNotifications = <<>>]

\* The finally block of batch().
batchFinally(S) ==
  LET off == [S EXCEPT !.batchMode = FALSE]
      fired == firePending(off, off.pendingNotifications, 1)
  IN [fired EXCEPT !.pendingNotifications = <<>>]

----------------------------------------------------------------------------
\* state/store.js: reset and persistence

\* The setState calls of a batch function, in order; an exception ends the function.
RECURSIVE setEach(_, _, _)
setEach(S, writes, i) ==
  IF i > Len(writes) \/ S.threw THEN S
  ELSE setEach(setState(S, writes[i].key, writes[i].value), writes, i + 1)

\* batch(() => { setState(k1, v1); setState(k2, v2); ... })
batchOf(S, writes) ==
  batchFinally([setEach([batchEnter(S) EXCEPT !.fnRunning = TRUE], writes, 1)
                  EXCEPT !.fnRunning = FALSE])

\* A reset that restores the mode alone.
resetWritesModeOnly == << [key |-> <<"mode">>, value |-> Str("clusters")] >>

resetWrites ==
  << [key |-> <<"mode">>, value |-> Str("clusters")],
     [key |-> <<"autoSwitchedToCluster">>, value |-> Bool(FALSE)],
     [key |-> <<"filters", "volume">>, value |-> Str("all")],
     [key |-> <<"filters", "category">>, value |-> Str("all")],
     [key |-> <<"cluster", "sizeMetric">>, value |-> Str("count")],
     [key |-> <<"cluster", "colorMetric">>, value |-> Str("weight")],
     [key |-> <<"cluster", "radius">>, value |-> Num(CLUSTER_RADIUS)],
     [key |-> <<"cluster", "maxZoom">>, value |-> Num(CLUSTER_MAX_ZOOM)],
     [key |-> <<"cluster", "opacity">>, value |-> Num(CLUSTER_OPACITY)],
     [key |-> <<"heatmap", "metric">>, value |-> Str("count")],
     [key |-> <<"heatmap", "intensity">>, value |-> Num(HEATMAP_INTENSITY)],
     [key |-> <<"heatmap", "radius">>, value |-> Num(HEATMAP_RADIUS)],
     [key |-> <<"heatmap", "opacity">>, value |-> Num(HEATMAP_OPACITY)],
     [key |-> <<"markers", "icon">>, value |-> Str("recycling-bin")],
     [key |-> <<"markers", "baseSize">>, value |-> Num(MARKER_BASE_SIZE)],
     [key |-> <<"markers", "scaleByVolume">>, value |-> Bool(TRUE)],
     [key |-> <<"colors", "primary">>, value |-> Str("#3b82f6")],
     [key |-> <<"colors", "secondary">>, value |-> Str("#ef4444")] >>

resetState(S) == batchOf(S, resetWrites)

persistedKeys == <<"mode", "filters", "cluster", "heatmap", "markers", "colors">>

\* The property names of the state's objects in the order the state literal
\* creates them, which is the order of Object.entries and of JSON.stringify.
\* The last name is one that only a snapshot of another origin carries.
PropertyOrder ==
  << "volume", "category", "sizeMetric", "colorMetric", "radius", "maxZoom", "opacity",
     "metric", "intensity", "icon", "baseSize", "scaleByVolume", "primary", "secondary",
     "legacy" >>

ObjectKeys(obj) == SelectSeq(PropertyOrder, LAMBDA k : k \in DOMAIN obj)

\* JSON.parse(JSON.stringify(value)) of a primitive or of an object of
\* primitives: a property holding undefined is left out.
JSONRoundTrip(value) ==
  IF IsObject(value)
    THEN [k \in {x \in DOMAIN value : value[x] # Undefined} |-> value[k]]
    ELSE value

\* JSON.stringify throws on a BigInt, also inside an object.
StringifyThrows(value) ==
  IF IsObject(value)
    THEN \E k \in DOMAIN value : JSONStringifyThrows(value[k])
    ELSE JSONStringifyThrows(value)

\* What localStorage holds under STORAGE_KEY: nothing (Null), a text that
\* JSON.parse rejects, or the text of a JSON value, kept as the value JSON.parse
\* gives with the order of its keys and with who wrote it.
Unparseable == Str("{oops")

\* localStorage.getItem itself throws (storage denied to the page).
Unreadable == Str("SecurityError")

Stored(writer, order, value) == [writer |-> writer, order |-> order, value |-> value]

\* toPersist of persistState, as JSON.parse gives it back.
Persisted(st) ==
  Stored("persistState",
         SelectSeq(persistedKeys, LAMBDA k : getStateIn(st, <<k>>) # Undefined),
         [k \in {x \in Range(persistedKeys) : getStateIn(st, <<x>>) # Undefined} |->
            JSONRoundTrip(getStateIn(st, <<k>>))])

\* persistState(): the new storage entry and the value returned.
persistState(st, stored) ==
  IF \E k \in Range(persistedKeys) : StringifyThrows(getStateIn(st, <<k>>))
    THEN [storage |-> stored, ret |-> FALSE]
    ELSE [storage |-> Persisted(st), ret |-> TRUE]

\* restoreEntry without the branch for the values that are no objects.
restoreEntryObjectsOnly(parsed, key) ==
  LET value == parsed[key]
      leaves == [i \in 1..Len(ObjectKeys(value)) |->
                   [key |-> <<key, ObjectKeys(value)[i]>>, value |-> value[ObjectKeys(value)[i]]]]
  IN IF IsObject(value)
       THEN SelectSeq(leaves, LAMBDA w : validateState(w.key, w.value).valid)
       ELSE << >>

\* restoreEntry without the validation of the leaves.
restoreEntryUnvalidated(parsed, key) ==
  LET value == parsed[key]
      leaves == [i \in 1..Len(ObjectKeys(value)) |->
                   [key |-> <<key, ObjectKeys(value)[i]>>, value |-> value[ObjectKeys(value)[i]]]]
  IN IF IsObject(value) THEN leaves ELSE << [key |-> <<key>>, value |-> value] >>

\* The writes restoreState makes for the entry key of the parsed object: the
\* valid leaves of an object value, or the value itself when it is valid.
restoreEntry(parsed, key) ==
  LET value == parsed[key]
      leaves == [i \in 1..Len(ObjectKeys(value)) |->
                   [key |-> <<key, ObjectKeys(value)[i]>>, value |-> value[ObjectKeys(value)[i]]]]
  IN IF IsObject(value)
       THEN SelectSeq(leaves, LAMBDA w : validateState(w.key, w.value).valid)
       ELSE IF validateState(<<key>>, value).valid
         THEN << [key |-> <<key>>, value |-> value] >>
         ELSE << >>

\* The writes of the batch function of restoreState, in the order of
\* Object.entries(parsed).
RECURSIVE restoreWrites(_, _)
restoreWrites(stored, i) ==
  IF i > Len(stored.order) THEN << >>
  ELSE restoreEntry(stored.value, stored.order[i]) \o restoreWrites(stored, i + 1)

\* restoreState(): the store after the call and the value returned.  Nothing
\* stored returns false; an exception of JSON.parse, of Object.entries(null) or
\* of a setState call inside the batch is caught and returns false.
restoreState(S, stored) ==
  IF stored \in {Null, Unparseable, Unreadable} THEN [store |-> S, ret |-> FALSE]
  ELSE IF stored.value = Null THEN [store |-> batchOf(S, << >>), ret |-> FALSE]
  ELSE LET after == batchOf(S, restoreWrites(stored, 1))
       IN [store |-> [after EXCEPT !.threw = FALSE], ret |-> ~after.threw]

clearPersistedState(stored) == Null

----------------------------------------------------------------------------
\* The store under its callers: test-state.mjs and the enhanced-state test

\* The keys the callers write, and for each the values they try: valid ones,
\* out-of-range ones and ones of another type.
Keys ==
  { <<"mode">>, <<"filters", "volume">>, <<"filters", "category">>,
    <<"cluster", "radius">>, <<"cluster", "sizeMetric">>, <<"heatmap", "opacity">>,
    <<"markers", "scaleByVolume">>, <<"colors", "primary">> }

Candidates(key) ==
  CASE key = <<"mode">> -> MODES \cup {Str("invalid")}
    [] key = <<"filters", "volume">> -> {Str("all"), Str("large"), Str("huge")}
    [] key = <<"filters", "category">> -> {Str("all"), Str("Restaurant"), Num(10)}
    [] key = <<"cluster", "radius">> -> {Num(CLUSTER_RADIUS), Num(600), Num(9990), BigInt(600)}
    [] key = <<"cluster", "sizeMetric">> -> {Str("count"), Str("weight")}
    [] key = <<"heatmap", "opacity">> -> {Num(HEATMAP_OPACITY), Num(5), Num(15)}
    [] key = <<"markers", "scaleByVolume">> -> {Bool(TRUE), Bool(FALSE), Str("yes")}
    [] key = <<"colors", "primary">> -> {Str("#3b82f6"), Str("#00ff00"), Str("red")}

SubscribedKeys ==
  Keys \cup {<<"filters">>, <<"cluster">>, <<"heatmap">>, <<"markers">>, <<"colors">>,
             <<"rawData">>, <<"geoJSON">>, <<"*">>}

\* The map before initMap: no handle in the store, nothing in the engine.
\* log is the sequence of addSource, removeSource, addLayer, removeLayer and
\* setPaintProperty calls the engine received from the handler that ran last.
NoEngine ==
  [styleLoaded |-> FALSE, reloading |-> FALSE, source |-> Null, layers |-> << >>, log |-> << >>,
   idleListeners |-> 0]

\* The observations of a selector that was never called: whether it was called,
\* its inputs at the last call, whether an input changed since, whether a point
\* of rawData was written in place, and the same with the result as they were
\* just before the last call.
NothingSeen ==
  [called |-> FALSE, deps |-> <<>>, changed |-> FALSE, inPlace |-> FALSE,
   before |-> [called |-> FALSE, deps |-> <<>>, changed |-> FALSE, result |-> Null]]

\* No timer is pending, _timeout is undefined (0), no timer was made yet.
\* No timer was made: the timers that are pending, the one enableAutoPersist._timeout
\* names, the number made, the number of persistState runs they caused and the
\* number of bursts of notifications (a burst starts when no timer is pending).
NoTimers == [pending |-> {}, timeout |-> 0, made |-> 0, ran |-> 0, bursts |-> 0,
             iconLoads |-> 0, styleTimers |-> 0]

NoOp == [name |-> "none", key |-> <<>>, value |-> Undefined, old |-> Undefined,
         ret |-> TRUE, threw |-> FALSE, before |-> "none"]

\* The modules as loaded, with the given subscriptions made and the given map
\* handle and engine.
Loaded(subscriptions, map, E) ==
  /\ state = [InitialState EXCEPT !.map = map]
  /\ subscribers = subscriptions
  /\ batchMode = FALSE
  /\ pendingNotifications = <<>>
  /\ calls = <<>>
  /\ pc = "idle"
  /\ fnWrites = <<>>
  /\ lastOp = NoOp
  /\ ops = 0
  /\ selectors = InitialSelectors
  /\ returned = NoResult
  /\ seen = NothingSeen
  /\ storage = Null
  /\ engine = E
  /\ unsubscribed = {}
  /\ stateHistory = << >>
  /\ historyEnabled = FALSE
  /\ timers = NoTimers

Init == Loaded([key \in SubscribedKeys |-> <<"f", "g">>], Null, NoEngine)

\* The keys the function given to batch() writes.
BatchKeys == {<<"mode">>, <<"filters", "volume">>, <<"cluster", "radius">>}

\* A call comes either from the top level or from inside the function given to batch().
CanCall(key) ==
  /\ ops < MaxOps
  /\ pc = "fn" => key \in BatchKeys /\ Len(fnWrites) < MaxBatchWrites

Caller == [Store EXCEPT !.calls = IF pc = "fn" THEN calls ELSE <<>>]

Return(S, name, key, value, ret) ==
  /\ state' = S.state
  /\ batchMode' = S.batchMode
  /\ pendingNotifications' = S.pendingNotifications
  /\ calls' = S.calls
  /\ lastOp' = [name |-> name, key |-> key, value |-> value, old |-> getState(key),
                ret |-> ret, threw |-> S.threw, before |-> lastOp.name]
  /\ fnWrites' = IF pc = "fn"
                   THEN Append(fnWrites, [key |-> key, value |-> value, old |-> getState(key),
                                          written |-> (S.state # state)])
                   ELSE <<>>
  /\ ops' = ops + 1
  /\ UNCHANGED <<obsVars, subscribers, pc, selVars, engine>>

CallSetState ==
  \E key \in Keys : \E value \in Candidates(key) :
    /\ CanCall(key)
    /\ Return(setState(Caller, key, value), "setState", key, value, TRUE)

CallSetMode ==
  \E mode \in Candidates(<<"mode">>) :
    /\ CanCall(<<"mode">>)
    /\ Return(setMode(Caller, mode), "setMode", <<"mode">>, mode, TRUE)

CallSetFilter ==
  \E filterType \in {"volume", "category"} : \E value \in Candidates(<<"filters", filterType>>) :
    /\ CanCall(<<"filters", filterType>>)
    /\ Return(setFilter(Caller, filterType, value), "setFilter", <<"filters", filterType>>,
              value, TRUE)

CallSetClusterSetting ==
  \E key \in {"radius", "sizeMetric"} : \E value \in Candidates(<<"cluster", key>>) :
    /\ CanCall(<<"cluster", key>>)
    /\ Return(setClusterSetting(Caller, key, value), "setClusterSetting", <<"cluster", key>>,
              value, TRUE)

CallSetHeatmapSetting ==
  \E value \in Candidates(<<"heatmap", "opacity">>) :
    /\ CanCall(<<"heatmap", "opacity">>)
    /\ Return(setHeatmapSetting(Caller, "opacity", value), "setHeatmapSetting",
              <<"heatmap", "opacity">>, value, TRUE)

CallSetMarkerSetting ==
  \E value \in Candidates(<<"markers", "scaleByVolume">>) :
    /\ CanCall(<<"markers", "scaleByVolume">>)
    /\ Return(setMarkerSetting(Caller, "scaleByVolume", value), "setMarkerSetting",
              <<"markers", "scaleByVolume">>, value, TRUE)

CallSetColor ==
  \E value \in Candidates(<<"colors", "primary">>) :
    /\ CanCall(<<"colors", "primary">>)
    /\ Return(setColor(Caller, "primary", value), "setColor", <<"colors", "primary">>,
              value, TRUE)

CallSetStateValidated ==
  \E key \in Keys : \E value \in Candidates(key) :
    /\ CanCall(key)
    /\ LET r == setStateValidated(Caller, key, value)
       IN Return(r.store, "setStateValidated", key, value, r.ret)

\* batch(updateFn) up to the call of updateFn.
BatchBegin ==
  /\ pc = "idle"
  /\ ops < MaxOps
  /\ LET S == batchEnter(Caller)
     IN /\ batchMode' = S.batchMode
        /\ pendingNotifications' = S.pendingNotifications
        /\ calls' = S.calls
  /\ pc' = "fn"
  /\ fnWrites' = <<>>
  /\ lastOp' = [NoOp EXCEPT !.name = "batchBegin"]
  /\ UNCHANGED <<obsVars, state, subscribers, ops, selVars, engine>>

\* updateFn returns, or throws: the finally block of batch() runs either way.
BatchEnd ==
  \E thrown \in BOOLEAN :
    /\ pc = "fn"
    /\ LET S == batchFinally([Caller EXCEPT !.fnRunning = FALSE])
       IN /\ state' = S.state
          /\ batchMode' = S.batchMode
          /\ pendingNotifications' = S.pendingNotifications
          /\ calls' = S.calls
    /\ pc' = "idle"
    /\ lastOp' = [NoOp EXCEPT !.name = "batch", !.threw = thrown]
    /\ UNCHANGED <<obsVars, subscribers, fnWrites, ops, selVars, engine>>

Next ==
  \/ CallSetState
  \/ CallSetMode
  \/ CallSetFilter
  \/ CallSetClusterSetting
  \/ CallSetHeatmapSetting
  \/ CallSetMarkerSetting
  \/ CallSetColor
  \/ CallSetStateValidated
  \/ BatchBegin
  \/ BatchEnd

Spec == Init /\ [][Next]_vars

----------------------------------------------------------------------------
\* Properties of the store

\* The calls of the last operation made to callback cb under its subscription to sub.
CallsTo(sub, cb) == {i \in 1..Len(calls) : calls[i].sub = sub /\ calls[i].cb = cb}

\* The calls of the last operation that announce a change of key to callback cb
\* under its subscription of the given kind.
CallsAbout(kind, key, cb) ==
  {i \in 1..Len(calls) : calls[i].kind = kind /\ calls[i].key = key /\ calls[i].cb = cb}

Mutators ==
  {"setState", "setMode", "setFilter", "setClusterSetting", "setHeatmapSetting",
   "setMarkerSetting", "setColor"}

\* The last operation was a mutator called outside a batch and it changed its path.
EffectiveChange ==
  /\ pc = "idle"
  /\ lastOp.name \in Mutators
  /\ lastOp.old # lastOp.value

\* The step is a call of one of the named operations.
IsCallOf(names) == ops' = ops + 1 /\ lastOp'.name \in names

BatchDone == pc = "idle" /\ lastOp.name = "batch"

WrittenAt(key) == {i \in 1..Len(fnWrites) : fnWrites[i].key = key /\ fnWrites[i].written}

ChangedKeys == {fnWrites[i].key : i \in {j \in 1..Len(fnWrites) : fnWrites[j].written}}

Min(S) == CHOOSE x \in S : \A y \in S : x <= y

Max(S) == CHOOSE x \in S : \A y \in S : x >= y

\* C1: once batch(fn) is over, every path changed during fn has been announced
\* exactly once to each of its subscribers and to each wildcard subscriber, with
\* the last value written to it; the paths are announced in the order of their
\* first write (a write of the value already stored is a no-op and writes
\* nothing); and no subscriber runs while fn does.
C1_BatchNotifiesOncePerPath ==
  /\ pc = "fn" => calls = <<>>
  /\ \A i \in 1..Len(calls) : ~calls[i].fnRunning
  /\ BatchDone =>
       /\ \A key \in ChangedKeys :
            LET last == fnWrites[Max(WrittenAt(key))].value
            IN /\ \A cb \in Range(Callbacks(key)) :
                    /\ Cardinality(CallsAbout("exact", key, cb)) = 1
                    /\ \A i \in CallsAbout("exact", key, cb) : calls[i].arg = last
               /\ \A cb \in Range(Callbacks(<<"*">>)) :
                    /\ Cardinality(CallsAbout("wildcard", key, cb)) = 1
                    /\ \A i \in CallsAbout("wildcard", key, cb) :
                         calls[i].arg = [key |-> key, value |-> last]
       /\ \A k1 \in ChangedKeys : \A k2 \in ChangedKeys :
            Min(WrittenAt(k1)) < Min(WrittenAt(k2)) =>
              \A i \in 1..Len(calls) : \A j \in 1..Len(calls) :
                calls[i].key = k1 /\ calls[j].key = k2 => i < j

\* Three successive effective writes to one path inside one batch.
C1_Witness ==
  /\ BatchDone
  /\ Len(fnWrites) = 3
  /\ \A i \in 1..3 : fnWrites[i].key = <<"mode">> /\ fnWrites[i].written
  /\ calls # <<>>

\* Two distinct paths changed in one batch, the first of them twice.
C1_WitnessOrder ==
  /\ BatchDone
  /\ Cardinality(ChangedKeys) = 2
  /\ Len(fnWrites) = 3
  /\ fnWrites[1].key = fnWrites[3].key

\* C2: setValidated(p, v) does not throw; when validate(p, v) passes it
\* returns true and get(p) is v afterward; when it fails it returns false, the
\* value at p is the one it was and no subscriber was called.
C2_SetValidatedNeverThrows ==
  lastOp.name = "setStateValidated" =>
    /\ ~lastOp.threw
    /\ lastOp.ret = validateState(lastOp.key, lastOp.value).valid
    /\ lastOp.ret => getState(lastOp.key) = lastOp.value
    /\ ~lastOp.ret => getState(lastOp.key) = lastOp.old /\ (pc = "idle" => calls = <<>>)

\* The same, for the values JSON.stringify can serialise.
C2_SetValidatedSerialisable ==
  lastOp.name = "setStateValidated" /\ ~JSONStringifyThrows(lastOp.value) =>
    /\ ~lastOp.threw
    /\ lastOp.ret = validateState(lastOp.key, lastOp.value).valid
    /\ lastOp.ret => getState(lastOp.key) = lastOp.value
    /\ ~lastOp.ret => getState(lastOp.key) = lastOp.old /\ (pc = "idle" => calls = <<>>)

\* C6: a mutator called with the value its path already holds changes nothing
\* and calls no subscriber, at once or later.
C6_EqualWriteIsNoOp ==
  [][IsCallOf(Mutators) /\ lastOp'.old = lastOp'.value =>
       /\ state' = state
       /\ pendingNotifications' = pendingNotifications
       /\ calls' = (IF pc = "fn" THEN calls ELSE <<>>)]_vars

\* setFilter called with the filter value that an earlier setFilter stored.
C6_Witness ==
  /\ lastOp.name = "setFilter"
  /\ lastOp.old = lastOp.value
  /\ lastOp.value = Str("large")
  /\ pc = "idle"

\* C7: a change made outside a batch calls every subscriber of the changed path
\* exactly once, with the new value, and the store already holds that value
\* when the callback reads it.
C7_ExactSubscribersOnceAfterWrite ==
  EffectiveChange =>
    \A cb \in Range(Callbacks(lastOp.key)) :
      /\ Cardinality(CallsAbout("exact", lastOp.key, cb)) = 1
      /\ \A i \in CallsAbout("exact", lastOp.key, cb) :
           /\ calls[i].arg = lastOp.value
           /\ calls[i].seen = lastOp.value

\* A second effective setMode in a row.
C7_Witness ==
  /\ EffectiveChange
  /\ lastOp.name = "setMode"
  /\ lastOp.old # Str("clusters")
  /\ Range(Callbacks(<<"mode">>)) = {"f", "g"}

\* C8: a change of one child of a compound value calls every subscriber of the
\* parent path exactly once, with the whole parent value.
C8_ParentSubscribersOnce ==
  EffectiveChange /\ Len(lastOp.key) > 1 =>
    LET parentKey == <<lastOp.key[1]>>
    IN \A cb \in Range(Callbacks(parentKey)) :
         /\ Cardinality(CallsTo(parentKey, cb)) = 1
         /\ \A i \in CallsTo(parentKey, cb) : calls[i].arg = getState(parentKey)

\* C9: a change of a single path calls every wildcard subscriber exactly once,
\* with that path and its new value.
C9_WildcardSubscribersOnce ==
  EffectiveChange =>
    \A cb \in Range(Callbacks(<<"*">>)) :
      /\ Cardinality(CallsTo(<<"*">>, cb)) = 1
      /\ \A i \in CallsTo(<<"*">>, cb) :
           calls[i].arg = [key |-> lastOp.key, value |-> lastOp.value]

\* C11: the mode the store holds is always one of the known modes clusters,
\* heatmap and markers, whatever was passed to the calls that write it.
C11_ModeIsKnown == state.mode \in MODES

\* C25: when fn throws inside batch(fn), every path changed before the throw
\* is announced exactly once to each of its subscribers and to each wildcard
\* subscriber, batch mode is off and nothing is pending when batch is left, the
\* exception reaches the caller of batch, and the next effective write is
\* announced at once.
C25_ThrowingBatchStillFlushes ==
  [][ /\ pc = "fn" /\ pc' = "idle" /\ lastOp'.threw =>
           /\ lastOp'.name = "batch"
           /\ ~batchMode'
           /\ pendingNotifications' = <<>>
           /\ \A key \in ChangedKeys' :
                /\ \A cb \in Range(Callbacks(key)) :
                     Cardinality(CallsAbout("exact", key, cb)') = 1
                /\ \A cb \in Range(Callbacks(<<"*">>)) :
                     Cardinality(CallsAbout("wildcard", key, cb)') = 1
      /\ BatchDone /\ lastOp.threw /\ IsCallOf(Mutators) /\ lastOp'.old # lastOp'.value =>
           /\ pendingNotifications' = <<>>
           /\ \A key \in {lastOp'.key} : \A cb \in Range(Callbacks(key)) :
                Cardinality(CallsAbout("exact", key, cb)') = 1 ]_vars

\* fn has thrown after changing two paths, and their subscribers were called.
C25_Witness ==
  /\ BatchDone
  /\ lastOp.threw
  /\ Cardinality(ChangedKeys) = 2
  /\ calls # <<>>
  /\ ~batchMode

----------------------------------------------------------------------------
\* The selectors under their callers: data/generator.js, ui/controls.js, main.js

\* The datasets handed to setRawData, as (category, recyclingVolume, lng, lat),
\* the numbers in tenths.
Datasets ==
  { << >>,
    << <<"Restaurant", 30, -740, 407>>, <<"Shop", 40, -1182, 340>> >>,
    << <<"Shop", 70, 23, 488>>, <<"Restaurant", 60, -1, 515>>,
       <<"Restaurant", 10, 1397, -339>> >> }

\* A new array of new points, of identity ref.
MakeData(ref, dataset) ==
  Arr(ref, [i \in 1..Len(dataset) |->
              [id |-> Num(10 * ref + i), category |-> Str(dataset[i][1]),
               recyclingVolume |-> Num(dataset[i][2]),
               lng |-> Num(dataset[i][3]), lat |-> Num(dataset[i][4])]])

FilterValues(filterType) ==
  IF filterType = "volume" THEN {Str("all"), Str("small"), Str("medium"), Str("large")}
  ELSE {Str("all"), Str("Restaurant")}

SelKeys == {<<"filters", "volume">>, <<"filters", "category">>, <<"rawData", "0", "recyclingVolume">>}

SelCandidates(key) ==
  CASE key = <<"filters", "volume">> -> {Str("all"), Str("medium")}
    [] key = <<"filters", "category">> -> {Str("all"), Str("Shop")}
    [] key = <<"rawData", "0", "recyclingVolume">> -> {Num(30), Num(70)}

\* The identities and values the selector's dependencies stand for.
DepsSeen(st) == <<RefOf(st.rawData), st.filters.volume, st.filters.category>>

\* After init() of main.js: enableAutoPersist has subscribed to '*'.
InitSel == Loaded([key \in {<<"*">>} |-> <<"autoPersist">>], Null, NoEngine)

\* A store function has returned S.
SelReturn(S, name) ==
  /\ state' = S.state
  /\ batchMode' = S.batchMode
  /\ pendingNotifications' = S.pendingNotifications
  /\ calls' = S.calls
  /\ lastOp' = [NoOp EXCEPT !.name = name, !.threw = S.threw]
  /\ seen' = [seen EXCEPT
                !.changed = @ \/ DepsSeen(S.state) # DepsSeen(state),
                !.inPlace = @ \/ (/\ RefOf(S.state.rawData) = RefOf(state.rawData)
                                  /\ S.state.rawData # state.rawData)]
  /\ ops' = ops + 1
  /\ UNCHANGED <<obsVars, subscribers, pc, fnWrites, selectors, returned, storage, engine>>

SelSetRawData ==
  \E dataset \in Datasets :
    /\ ops < MaxSelOps
    /\ SelReturn(setRawData(Store, MakeData(ops + 1, dataset)), "setRawData")

SelSetFilter ==
  \E filterType \in {"volume", "category"} : \E value \in FilterValues(filterType) :
    /\ ops < MaxSelOps
    /\ SelReturn(setFilter(Store, filterType, value), "setFilter")

SelSetState ==
  \E key \in SelKeys : \E value \in SelCandidates(key) :
    /\ ops < MaxSelOps
    /\ key[1] = "rawData" => Len(state.rawData.items) > 0
    /\ SelReturn(setState(Store, key, value), "setState")

SelSetMode ==
  \E mode \in {Str("clusters"), Str("heatmap")} :
    /\ ops < MaxSelOps
    /\ SelReturn(setMode(Store, mode), "setMode")

SelSetClusterSetting ==
  \E value \in {Num(CLUSTER_RADIUS), Num(600)} :
    /\ ops < MaxSelOps
    /\ SelReturn(setClusterSetting(Store, "radius", value), "setClusterSetting")

SelSetColor ==
  \E value \in {Str("#3b82f6"), Str("#00ff00")} :
    /\ ops < MaxSelOps
    /\ SelReturn(setColor(Store, "primary", value), "setColor")

SelResetState ==
  /\ ops < MaxSelOps
  /\ SelReturn(resetState(Store), "resetState")

SelRestoreState ==
  /\ ops < MaxSelOps
  /\ SelReturn(restoreState(Store, storage).store, "restoreState")

SelPersistState ==
  /\ ops < MaxSelOps
  /\ storage' = persistState(state, storage).storage
  /\ lastOp' = [NoOp EXCEPT !.name = "persistState"]
  /\ ops' = ops + 1
  /\ UNCHANGED <<obsVars, state, subscribers, batchMode, pendingNotifications, calls, pc, fnWrites,
                 selectors, returned, seen, engine>>

SelGetFilteredData ==
  /\ ops < MaxSelOps
  /\ LET r == getFilteredData(selectors, state, ops + 1)
     IN /\ selectors' = r.selectors
        /\ returned' = [result |-> r.result, computed |-> r.computed]
  /\ seen' = [called |-> TRUE, deps |-> DepsSeen(state), changed |-> FALSE,
              inPlace |-> seen.inPlace,
              before |-> [called |-> seen.called, deps |-> seen.deps,
                          changed |-> seen.changed, result |-> returned.result]]
  /\ lastOp' = [NoOp EXCEPT !.name = "getFilteredData"]
  /\ ops' = ops + 1
  /\ UNCHANGED <<obsVars, state, subscribers, batchMode, pendingNotifications, calls, pc, fnWrites,
                 storage, engine>>

NextSel ==
  \/ SelSetRawData
  \/ SelSetFilter
  \/ SelSetState
  \/ SelSetMode
  \/ SelSetClusterSetting
  \/ SelSetColor
  \/ SelResetState
  \/ SelRestoreState
  \/ SelPersistState
  \/ SelGetFilteredData

SpecSel == InitSel /\ [][NextSel]_vars

----------------------------------------------------------------------------
\* Properties of the selectors

\* The inclusive volume buckets, in tenths.
InBucket(volumeFilter, volume) ==
  CASE volumeFilter = Str("all") -> TRUE
    [] volumeFilter = Str("small") -> volume.n >= 10 /\ volume.n <= 30
    [] volumeFilter = Str("medium") -> volume.n >= 40 /\ volume.n <= 60
    [] volumeFilter = Str("large") -> volume.n >= 70 /\ volume.n <= 100
    [] OTHER -> FALSE

\* The points of rawData, in its order, that the filters admit.
ReferenceFilter(points, filters) ==
  SelectSeq(points, LAMBDA point :
    /\ filters.category = Str("all") \/ point.category = filters.category
    /\ InBucket(filters.volume, point.recyclingVolume))

PointIds(points) == [i \in 1..Len(points) |-> points[i].id]

\* What filteredData() returns when called in the current state.
FilteredDataNow == getFilteredData(selectors, state, 0).result

FilteredDataIsReference ==
  PointIds(FilteredDataNow.items) = PointIds(ReferenceFilter(state.rawData.items, state.filters))

\* C4 as stated: in every state reached by setRawData (with a new array),
\* setFilter, set, restoreState and resetState, filteredData() is the reference
\* filter of the current rawData under the current filters.
C4_NeverStale == FilteredDataIsReference

\* C4 amended: the same, as long as no set has written below rawData, that is,
\* as long as the points of the current array are the ones it was created with.
C4_NeverStaleUnlessWrittenInPlace == ~seen.inPlace => FilteredDataIsReference

\* restoreState has brought back filters other than those the cache was
\* computed for, and the filters admit some points of rawData but not all.
C4_Witness ==
  /\ lastOp.name = "restoreState"
  /\ ~seen.inPlace
  /\ selectors.filteredData.hasDeps
  /\ ~depsEqual(selectors.filteredData.cachedDeps, filteredDataDeps(state))
  /\ Len(FilteredDataNow.items) > 0
  /\ Len(FilteredDataNow.items) < Len(state.rawData.items)

\* C5 as stated: a second or later call returns the array the call before it
\* returned if neither the rawData reference nor a filter value was changed in
\* between, and a newly computed array if one was.
C5_RecomputesAfterEveryChange ==
  lastOp.name = "getFilteredData" /\ seen.before.called =>
    IF seen.before.changed
      THEN returned.computed /\ returned.result.ref # seen.before.result.ref
      ELSE ~returned.computed /\ returned.result.ref = seen.before.result.ref

\* C5 amended: a second or later call returns the array the call before it
\* returned if the rawData reference and the filter values are the ones of that
\* call, also when they were changed and changed back in between, and a newly
\* computed array otherwise.
C5_RecomputesIffDepsDiffer ==
  lastOp.name = "getFilteredData" /\ seen.before.called =>
    IF seen.deps # seen.before.deps
      THEN returned.computed /\ returned.result.ref # seen.before.result.ref
      ELSE ~returned.computed /\ returned.result.ref = seen.before.result.ref

\* A call answered from the cache after a mode change and a setting change.
C5_Witness ==
  /\ lastOp.name = "getFilteredData"
  /\ seen.before.called
  /\ ~returned.computed
  /\ state.mode = Str("heatmap")
  /\ state.cluster.radius = Num(600)

\* A call that recomputes because rawData was replaced, the filters being the same.
C5_WitnessReplaced ==
  /\ lastOp.name = "getFilteredData"
  /\ seen.before.called
  /\ returned.computed
  /\ seen.deps[1] # seen.before.deps[1]
  /\ seen.deps[2] = seen.before.deps[2]
  /\ seen.deps[3] = seen.before.deps[3]

----------------------------------------------------------------------------
\* The derived selectors under their caller, the selector part of the enhanced-state test

\* A store function has returned S.
DerWrote(S, name) ==
  /\ state' = S.state
  /\ batchMode' = S.batchMode
  /\ pendingNotifications' = S.pendingNotifications
  /\ calls' = S.calls
  /\ lastOp' = [NoOp EXCEPT !.name = name, !.before = lastOp.name]
  /\ ops' = ops + 1
  /\ UNCHANGED <<obsVars, subscribers, pc, fnWrites, selVars, engine>>

\* A selector has returned r.
DerCalled(r, name) ==
  /\ selectors' = r.selectors
  /\ returned' = [result |-> r.result, computed |-> r.computed]
  /\ lastOp' = [NoOp EXCEPT !.name = name, !.before = lastOp.name]
  /\ ops' = ops + 1
  /\ UNCHANGED <<obsVars, state, subscribers, batchMode, pendingNotifications, calls, pc, fnWrites,
                 seen, storage, engine>>

DerSetRawData ==
  \E dataset \in Datasets :
    /\ ops < MaxDerOps
    /\ DerWrote(setRawData(Store, MakeData(ops + 1, dataset)), "setRawData")

DerSetFilter ==
  \E filterType \in {"volume", "category"} : \E value \in FilterValues(filterType) :
    /\ ops < MaxDerOps
    /\ DerWrote(setFilter(Store, filterType, value), "setFilter")

DerGetFilteredData ==
  /\ ops < MaxDerOps
  /\ DerCalled(getFilteredData(selectors, state, ops + 1), "getFilteredData")

DerGetFilteredCount ==
  /\ ops < MaxDerOps
  /\ DerCalled(getFilteredCount(selectors, state, ops + 1), "getFilteredCount")

DerGetDataStats ==
  /\ ops < MaxDerOps
  /\ DerCalled(getDataStats(selectors, state, ops + 1), "getDataStats")

DerGetFilteredGeoJSON ==
  /\ ops < MaxDerOps
  /\ DerCalled(getFilteredGeoJSON(selectors, state, ops + 1), "getFilteredGeoJSON")

DerGetFilteredBounds ==
  /\ ops < MaxDerOps
  /\ DerCalled(getFilteredBounds(selectors, state, ops + 1), "getFilteredBounds")

NextDer ==
  \/ DerSetRawData
  \/ DerSetFilter
  \/ DerGetFilteredData
  \/ DerGetFilteredCount
  \/ DerGetDataStats
  \/ DerGetFilteredGeoJSON
  \/ DerGetFilteredBounds

SpecDer == InitSel /\ [][NextDer]_vars

----------------------------------------------------------------------------
\* Properties of the derived selectors

\* What the selectors return when called in the current state.
FilteredCountNow == getFilteredCount(selectors, state, 0).result

DataStatsNow == getDataStats(selectors, state, 0).result

FilteredGeoJSONNow == getFilteredGeoJSON(selectors, state, 0).result

FilteredBoundsNow == getFilteredBounds(selectors, state, 0).result

\* The selector answers from a cache that an earlier call filled for the
\* dependencies as they are now.
Cached(cache) == cache.hasDeps /\ depsEqual(cache.cachedDeps, filteredDataDeps(state))

\* C21: in every state reached by replacing the dataset, setting the filters
\* and calling the selectors in any order, filteredCount() is the length of
\* filteredData() and dataStats().filtered is filteredCount().
C21_CountsAgree ==
  /\ FilteredCountNow = Num(10 * Len(FilteredDataNow.items))
  /\ DataStatsNow.filtered = FilteredCountNow

\* The statistics were just computed while the count comes from a cache filled
\* by an earlier call, and the filters admit some points but not all.
C21_Witness ==
  /\ lastOp.name = "getDataStats"
  /\ returned.computed
  /\ lastOp.before = "getFilteredCount"
  /\ Cached(selectors.filteredCount)
  /\ Len(FilteredDataNow.items) > 0
  /\ Len(FilteredDataNow.items) < Len(state.rawData.items)

\* The empty dataset: the count and the statistics are asked for after the
\* data was replaced by no point at all.
C21_WitnessEmpty ==
  /\ lastOp.name = "getFilteredCount"
  /\ returned.computed
  /\ lastOp.before = "setRawData"
  /\ RefOf(state.rawData) # 0
  /\ Len(state.rawData.items) = 0
  /\ selectors.dataStats.hasDeps

\* C22: filteredGeometryCollection() is null, and never a collection without
\* features, exactly when filteredData() is empty, and filteredBounds() is null
\* exactly then; otherwise the collection has one point feature per filtered
\* point, in the same order, and the bounds are [[min lng, min lat],
\* [max lng, max lat]] over the filtered points alone.
C22_EmptyMarkersAndBounds ==
  LET points == FilteredDataNow.items
      geo == FilteredGeoJSONNow
      bounds == FilteredBoundsNow
      lngs == {points[i].lng.n : i \in 1..Len(points)}
      lats == {points[i].lat.n : i \in 1..Len(points)}
  IN IF Len(points) = 0
       THEN geo = Null /\ bounds = Null
       ELSE /\ geo # Null
            /\ Len(geo.features) = Len(points)
            /\ \A i \in 1..Len(points) :
                 /\ geo.features[i].id = points[i].id
                 /\ geo.features[i].coordinates = <<points[i].lng, points[i].lat>>
            /\ bounds # Null
            /\ bounds.items = << <<Num(Min(lngs)), Num(Min(lats))>>,
                                 <<Num(Max(lngs)), Num(Max(lats))>> >>

\* The bounds were just computed for filters that admit some points but leave
\* out one that lies further out than all of them; the collection is cached.
C22_Witness ==
  /\ lastOp.name = "getFilteredBounds"
  /\ returned.computed
  /\ Cached(selectors.filteredGeoJSON)
  /\ Len(FilteredDataNow.items) > 0
  /\ returned.result # computeFilteredBounds(state.rawData.items, returned.result.ref)

\* The collection was just asked for with points loaded and none admitted.
C22_WitnessEmpty ==
  /\ lastOp.name = "getFilteredGeoJSON"
  /\ returned.computed
  /\ returned.result = Null
  /\ Len(state.rawData.items) > 0

----------------------------------------------------------------------------
\* layers/clusters.js, layers/heatmap.js, layers/markers.js, layers/index.js

\* A layer specification: its id and the style properties that depend on the
\* configuration.  Opacities of circle layers are in hundredths.
Layer(id, props) == [id |-> id, props |-> props]

\* createClusterLayers with the cluster circles ahead of their glow.
createClusterLayersSolidFirst(config) ==
  << Layer("clusters",
           [circleColor |-> <<config.colorMetric, config.primary, config.secondary>>,
            circleRadius |-> config.sizeMetric,
            circleOpacity |-> config.opacity.n * 10]),
     Layer("clusters-glow",
           [circleColor |-> <<config.colorMetric, config.primary, config.secondary>>,
            circleRadius |-> config.sizeMetric,
            circleOpacity |-> config.opacity.n * 5]),
     Layer("cluster-count", [textColor |-> Str("#fff")]),
     Layer("unclustered-point-glow",
           [circleFill |-> config.primary, circleOpacity |-> config.opacity.n * 4]),
     Layer("unclustered-point",
           [circleFill |-> config.primary, circleOpacity |-> config.opacity.n * 10]) >>

createClusterLayers(config) ==
  << Layer("clusters-glow",
           [circleColor |-> <<config.colorMetric, config.primary, config.secondary>>,
            circleRadius |-> config.sizeMetric,
            circleOpacity |-> config.opacity.n * 5]),
     Layer("clusters",
           [circleColor |-> <<config.colorMetric, config.primary, config.secondary>>,
            circleRadius |-> config.sizeMetric,
            circleOpacity |-> config.opacity.n * 10]),
     Layer("cluster-count", [textColor |-> Str("#fff")]),
     Layer("unclustered-point-glow",
           [circleFill |-> config.primary, circleOpacity |-> config.opacity.n * 4]),
     Layer("unclustered-point",
           [circleFill |-> config.primary, circleOpacity |-> config.opacity.n * 10]) >>

createHeatmapLayers(config) ==
  << Layer("heatmap",
           [heatmapWeight |-> config.metric, heatmapIntensity |-> config.intensity,
            heatmapRadius |-> config.radius, heatmapOpacity |-> config.opacity]) >>

createMarkerLayers(config) ==
  << Layer("markers",
           [iconImage |-> config.icon, iconSize |-> <<config.baseSize, config.scaleByVolume>>]),
     Layer("markers-labels", [textColor |-> Str("#1B5E20")]) >>

createLayersForMode(st) ==
  CASE st.mode = Str("clusters") ->
         createClusterLayers([primary |-> st.colors.primary, secondary |-> st.colors.secondary,
                              sizeMetric |-> st.cluster.sizeMetric,
                              colorMetric |-> st.cluster.colorMetric,
                              opacity |-> st.cluster.opacity])
    [] st.mode = Str("heatmap") ->
         createHeatmapLayers([metric |-> st.heatmap.metric, intensity |-> st.heatmap.intensity,
                              radius |-> st.heatmap.radius, opacity |-> st.heatmap.opacity])
    [] st.mode = Str("markers") ->
         createMarkerLayers([icon |-> st.markers.icon, baseSize |-> st.markers.baseSize,
                             scaleByVolume |-> st.markers.scaleByVolume])
    [] OTHER -> << >>

ALL_LAYER_IDS ==
  << "clusters", "clusters-glow", "cluster-count", "unclustered-point",
     "unclustered-point-glow", "heatmap", "markers", "markers-labels" >>

HasLayer(E, id) == \E i \in 1..Len(E.layers) : E.layers[i].id = id

\* A call the engine received: the method and the id of the layer or source.
EngineCall(method, id) == [method |-> method, id |-> id]

\* map.removeLayer(id) for the ids from position i on that map.getLayer finds.
RECURSIVE removeLayersFrom(_, _)
removeLayersFrom(E, i) ==
  IF i > Len(ALL_LAYER_IDS) THEN E
  ELSE IF HasLayer(E, ALL_LAYER_IDS[i])
    THEN removeLayersFrom(
           [E EXCEPT !.layers = SelectSeq(@, LAMBDA layer : layer.id # ALL_LAYER_IDS[i]),
                     !.log = Append(@, EngineCall("removeLayer", ALL_LAYER_IDS[i]))],
           i + 1)
  ELSE removeLayersFrom(E, i + 1)

\* removeAllLayers without its loop over the layer ids.
removeOnlySource(E) ==
  IF E.source # Null
    THEN [E EXCEPT !.source = Null, !.log = Append(@, EngineCall("removeSource", "points"))]
    ELSE E

\* removeAllLayers with the source removed ahead of the layers.
removeAllLayersSourceFirst(E) == removeLayersFrom(removeOnlySource(E), 1)

removeAllLayers(E) ==
  LET removed == removeLayersFrom(E, 1)
  IN IF removed.source # Null
       THEN [removed EXCEPT !.source = Null,
                            !.log = Append(@, EngineCall("removeSource", "points"))]
       ELSE removed

\* sourceConfig of addSource; clusterProperties is set only when clustering.
addSource(E, st, data) ==
  LET shouldCluster == st.mode = Str("clusters")
  IN [E EXCEPT !.source = [data |-> data, cluster |-> shouldCluster,
                           clusterMaxZoom |-> st.cluster.maxZoom,
                           clusterRadius |-> st.cluster.radius,
                           clusterProperties |->
                             IF shouldCluster
                               THEN [totalWeight |-> <<"+", <<"get", "recyclingVolume">> >>]
                               ELSE Undefined],
                !.log = Append(@, EngineCall("addSource", "points"))]

RECURSIVE addEach(_, _, _)
addEach(E, layers, i) ==
  IF i > Len(layers) THEN E
  ELSE addEach([E EXCEPT !.layers = Append(@, layers[i]),
                         !.log = Append(@, EngineCall("addLayer", layers[i].id))],
               layers, i + 1)

addLayers(E, st) == addEach(E, createLayersForMode(st), 1)

\* The application at one point of a handler: the store, the selectors' caches,
\* the engine and the value last returned.
World(S, sel, E) == [store |-> S, selectors |-> sel, engine |-> E, ret |-> Undefined]

\* rebuildForMode without the check of the map and of its style.
rebuildForModeUnguarded(W, id) ==
  LET st == W.store.state
      filtered == getFilteredGeoJSON(W.selectors, st, id)
  IN IF filtered.result = Null
       THEN [W EXCEPT !.selectors = filtered.selectors, !.ret = Num(0)]
     ELSE [W EXCEPT !.selectors = filtered.selectors,
                    !.engine = addLayers(addSource(removeAllLayers(@), st, filtered.result), st),
                    !.ret = Num(10 * Len(filtered.result.features))]

rebuildForMode(W, id) ==
  LET st == W.store.state
      filtered == getFilteredGeoJSON(W.selectors, st, id)
  IN IF st.map = Null \/ ~W.engine.styleLoaded THEN [W EXCEPT !.ret = Num(0)]
     ELSE IF filtered.result = Null
       THEN [W EXCEPT !.selectors = filtered.selectors, !.ret = Num(0)]
     ELSE [W EXCEPT !.selectors = filtered.selectors,
                    !.engine = addLayers(addSource(removeAllLayers(@), st, filtered.result), st),
                    !.ret = Num(10 * Len(filtered.result.features))]

\* A setPaintProperty call the engine received.
PaintCall(id, property) == [method |-> "setPaintProperty", id |-> id, property |-> property]

\* The field of a layer's props that holds a paint property.
PaintField(property) ==
  CASE property = "circle-opacity" -> "circleOpacity"
    [] property = "heatmap-intensity" -> "heatmapIntensity"
    [] property = "heatmap-radius" -> "heatmapRadius"
    [] property = "heatmap-opacity" -> "heatmapOpacity"

\* map.setPaintProperty(layerId, property, value)
setPaintProperty(E, layerId, property, value) ==
  [E EXCEPT !.layers = [i \in 1..Len(@) |->
                          IF @[i].id = layerId
                            THEN [@[i] EXCEPT !.props[PaintField(property)] = value]
                            ELSE @[i]],
            !.log = Append(@, PaintCall(layerId, property))]

\* updateLayerPaint without the test of map.getLayer.
updateLayerPaintUnchecked(E, st, layerId, property, value) ==
  IF st.map # Null THEN setPaintProperty(E, layerId, property, value) ELSE E

updateLayerPaint(E, st, layerId, property, value) ==
  IF st.map # Null /\ HasLayer(E, layerId)
    THEN setPaintProperty(E, layerId, property, value)
    ELSE E

\* The circle opacities are kept in hundredths: opacity, opacity * 0.5, opacity * 0.4.
\* updateClusterOpacity with the opacity itself on the glow layers.
updateClusterOpacityFlat(E, st, opacity) ==
  IF st.map = Null THEN E
  ELSE updateLayerPaint(
         updateLayerPaint(
           updateLayerPaint(
             updateLayerPaint(E, st, "clusters", "circle-opacity", opacity.n * 10),
             st, "clusters-glow", "circle-opacity", opacity.n * 10),
           st, "unclustered-point", "circle-opacity", opacity.n * 10),
         st, "unclustered-point-glow", "circle-opacity", opacity.n * 10)

updateClusterOpacity(E, st, opacity) ==
  IF st.map = Null THEN E
  ELSE updateLayerPaint(
         updateLayerPaint(
           updateLayerPaint(
             updateLayerPaint(E, st, "clusters", "circle-opacity", opacity.n * 10),
             st, "clusters-glow", "circle-opacity", opacity.n * 5),
           st, "unclustered-point", "circle-opacity", opacity.n * 10),
         st, "unclustered-point-glow", "circle-opacity", opacity.n * 4)

\* settings is a record of the heatmap settings given; a setting that is not
\* given, or is given as undefined, is left alone.
updateHeatmapProperties(E, st, settings) ==
  LET given(name) == name \in DOMAIN settings /\ settings[name] # Undefined
      E1 == IF given("intensity")
              THEN updateLayerPaint(E, st, "heatmap", "heatmap-intensity", settings.intensity)
              ELSE E
      E2 == IF given("radius")
              THEN updateLayerPaint(E1, st, "heatmap", "heatmap-radius", settings.radius)
              ELSE E1
      E3 == IF given("opacity")
              THEN updateLayerPaint(E2, st, "heatmap", "heatmap-opacity", settings.opacity)
              ELSE E2
  IN IF st.map = Null \/ ~HasLayer(E, "heatmap") THEN E ELSE E3

----------------------------------------------------------------------------
\* ui/controls.js, main.js, map/style.js: the handlers

rebuildIf(cond, W, id) == IF cond THEN rebuildForMode(W, id) ELSE W

\* switchMode without the reset of the flag on a choice of the user.
switchModeKeepingFlag(W, mode, isAutoSwitch, id) ==
  rebuildIf(W.store.state.map # Null, [W EXCEPT !.store = setMode(@, mode)], id)

switchMode(W, mode, isAutoSwitch, id) ==
  LET S1 == setMode(W.store, mode)
      S2 == IF isAutoSwitch THEN S1 ELSE [S1 EXCEPT !.state.autoSwitchedToCluster = Bool(FALSE)]
  IN rebuildIf(S2.state.map # Null, [W EXCEPT !.store = S2], id)

setCategoryFilter(W, category, id) ==
  rebuildForMode([W EXCEPT !.store = setFilter(@, "category", category)], id)

setVolumeFilter(W, volume, id) ==
  rebuildForMode([W EXCEPT !.store = setFilter(@, "volume", volume)], id)

setClusterSizeMetric(W, metric, id) ==
  LET W1 == [W EXCEPT !.store = setClusterSetting(@, "sizeMetric", metric)]
  IN rebuildIf(W1.store.state.mode = Str("clusters"), W1, id)

updateClusterRadius(W, value, id) ==
  rebuildForMode([W EXCEPT !.store = setClusterSetting(@, "radius", value)], id)

handleClusterOpacityChange(W, opacity) ==
  LET W1 == [W EXCEPT !.store = setClusterSetting(@, "opacity", opacity)]
  IN [W1 EXCEPT !.engine = updateClusterOpacity(@, W1.store.state, opacity)]

updateHeatmap(W, settings) ==
  LET S1 == setHeatmapSetting(W.store, "intensity", settings.intensity)
      S2 == setHeatmapSetting(S1, "radius", settings.radius)
      S3 == setHeatmapSetting(S2, "opacity", settings.opacity)
  IN [W EXCEPT !.store = S3, !.engine = updateHeatmapProperties(@, S3.state, settings)]

updateMarkerSize(W, value, id) ==
  LET W1 == [W EXCEPT !.store = setMarkerSetting(@, "baseSize", value)]
  IN rebuildIf(W1.store.state.mode = Str("markers"), W1, id)

updateColors(W, primary, secondary, id) ==
  rebuildForMode([W EXCEPT !.store = setColor(setColor(@, "primary", primary),
                                              "secondary", secondary)], id)

\* toGeoJSON(raw): the collection generated with the array raw, of its identity.
\* VOLUME_RANGES[volumeFilter], in tenths; undefined for any other name.
VOLUME_RANGES(volumeFilter) ==
  CASE volumeFilter = Str("all") -> [min |-> 10, max |-> 100]
    [] volumeFilter = Str("small") -> [min |-> 10, max |-> 30]
    [] volumeFilter = Str("medium") -> [min |-> 40, max |-> 60]
    [] volumeFilter = Str("large") -> [min |-> 70, max |-> 100]
    [] OTHER -> Undefined

\* applyFilters(geoJSON, filters): null for no collection; reading range.min
\* of an undefined range throws as soon as a feature is tested.
applyFilters(geoJSON, filters) ==
  LET byCategory == IF filters.category # Str("all")
                      THEN SelectSeq(geoJSON.features, LAMBDA f : f.category = filters.category)
                      ELSE geoJSON.features
      range == VOLUME_RANGES(filters.volume)
      byVolume == IF filters.volume # Str("all")
                    THEN SelectSeq(byCategory, LAMBDA f :
                           /\ f.recyclingVolume.n >= range.min
                           /\ f.recyclingVolume.n <= range.max)
                    ELSE byCategory
  IN IF geoJSON = Null THEN [result |-> Null, threw |-> FALSE]
     ELSE IF filters.volume # Str("all") /\ range = Undefined /\ Len(byCategory) > 0
       THEN [result |-> Undefined, threw |-> TRUE]
     ELSE [result |-> [features |-> byVolume], threw |-> FALSE]

\* getFilteredCount(geoJSON, filters) of the layer module.
getFilteredCountOfLayers(geoJSON, filters) ==
  LET filtered == applyFilters(geoJSON, filters)
  IN IF filtered.result = Null THEN Num(0) ELSE Num(10 * Len(filtered.result.features))

toGeoJSON(raw) ==
  FeatureCollection(raw.ref, [i \in 1..Len(raw.items) |->
    [id |-> raw.items[i].id, category |-> raw.items[i].category,
     recyclingVolume |-> raw.items[i].recyclingVolume]])

regenerateData(W, raw, id) ==
  LET W1 == [W EXCEPT !.store = setGeoJSON(setRawData(@, raw), toGeoJSON(raw))]
      W2 == rebuildForMode(W1, id)
      count == getFilteredCount(W2.selectors, W2.store.state, id)
  IN [W2 EXCEPT !.selectors = count.selectors, !.ret = count.result]

\* ZOOM.AUTO_SWITCH_THRESHOLD, in tenths.
AUTO_SWITCH_THRESHOLD == 80

\* checkAutoSwitchMode() when map.getZoom() yields zoom (in tenths).
checkAutoSwitchMode(W, zoom, id) ==
  LET st == W.store.state
  IN IF st.map = Null THEN W
     ELSE IF st.mode = Str("markers") /\ zoom < AUTO_SWITCH_THRESHOLD
       THEN switchMode([W EXCEPT !.store.state.autoSwitchedToCluster = Bool(TRUE)],
                       Str("clusters"), TRUE, id)
     ELSE IF /\ st.autoSwitchedToCluster = Bool(TRUE) /\ st.mode = Str("clusters")
             /\ zoom >= AUTO_SWITCH_THRESHOLD
       THEN switchMode([W EXCEPT !.store.state.autoSwitchedToCluster = Bool(FALSE)],
                       Str("markers"), TRUE, id)
     ELSE W

\* changeStyle: map.setStyle drops the layers and sources of the old style.
\* changeStyle without map.once('idle', ...).
changeStyleWithoutListener(E) == [E EXCEPT !.styleLoaded = FALSE, !.reloading = TRUE,
                                           !.source = Null, !.layers = << >>]

changeStyle(E) == [E EXCEPT !.styleLoaded = FALSE, !.reloading = TRUE,
                            !.source = Null, !.layers = << >>,
                            !.idleListeners = @ + 1]

\* The timer callback of handleStyleLoaded.
styleLoadedCallback(W, id) ==
  [rebuildIf(W.store.state.geoJSON # Null, W, id) EXCEPT !.engine.reloading = FALSE]

----------------------------------------------------------------------------
\* The pipeline under the user: the controls of the page and the engine's events

MapHandle == [t |-> "object", n |-> 0, s |-> "mapboxgl.Map"]

\* After init(), enableAutoPersist having subscribed to '*': either no token was
\* stored and the page waits for one with no map, or the map was created and its
\* style is loaded, before the first regenerateData.
InitPipe ==
  \/ Loaded([key \in {<<"*">>} |-> <<"autoPersist">>], Null, NoEngine)
  \/ Loaded([key \in {<<"*">>} |-> <<"autoPersist">>], MapHandle,
            [NoEngine EXCEPT !.styleLoaded = TRUE])

UIHandlers ==
  {"switchMode", "setCategoryFilter", "setVolumeFilter", "setClusterSizeMetric",
   "updateClusterRadius", "handleClusterOpacityChange", "updateHeatmap", "updateMarkerSize",
   "updateColors"}

\* A handler has run to its end and left W.
PipeReturn(W, name) ==
  /\ state' = W.store.state
  /\ batchMode' = W.store.batchMode
  /\ pendingNotifications' = W.store.pendingNotifications
  /\ calls' = W.store.calls
  /\ selectors' = W.selectors
  /\ engine' = W.engine
  /\ lastOp' = [NoOp EXCEPT !.name = name, !.value = W.ret, !.threw = W.store.threw,
                            !.before = lastOp.name]
  /\ ops' = ops + 1
  /\ UNCHANGED <<obsVars, subscribers, pc, fnWrites, returned, seen, storage>>

\* The application as a handler finds it.
Now == World(Store, selectors, [engine EXCEPT !.log = << >>])

\* saveToken and initMap: the map is created and stored; its style is loading.
PipeInitMap ==
  /\ ops < MaxPipeOps
  /\ state.map = Null
  /\ PipeReturn([Now EXCEPT !.store = setMap(@, MapHandle)], "initMap")

\* The map's load event: the style is loaded and the first data is generated.
PipeMapLoad ==
  \E dataset \in Datasets :
    /\ ops < MaxPipeOps
    /\ state.map # Null /\ ~engine.styleLoaded /\ ~engine.reloading
    /\ PipeReturn(regenerateData([Now EXCEPT !.engine.styleLoaded = TRUE],
                                 MakeData(ops + 1, dataset), ops + 1), "load")

\* A direct call of rebuildForMode().
PipeRebuildForMode ==
  /\ ops < MaxPipeOps
  /\ PipeReturn(rebuildForMode(Now, ops + 1), "rebuildForMode")

PipeRegenerateData ==
  \E dataset \in Datasets :
    /\ ops < MaxPipeOps
    /\ PipeReturn(regenerateData(Now, MakeData(ops + 1, dataset), ops + 1), "regenerateData")

PipeSwitchMode ==
  \E mode \in MODES : \E isAutoSwitch \in BOOLEAN :
    /\ ops < MaxPipeOps
    /\ PipeReturn(switchMode(Now, mode, isAutoSwitch, ops + 1), "switchMode")

PipeSetCategoryFilter ==
  \E category \in FilterValues("category") :
    /\ ops < MaxPipeOps
    /\ PipeReturn(setCategoryFilter(Now, category, ops + 1), "setCategoryFilter")

PipeSetVolumeFilter ==
  \E volume \in FilterValues("volume") :
    /\ ops < MaxPipeOps
    /\ PipeReturn(setVolumeFilter(Now, volume, ops + 1), "setVolumeFilter")

PipeSetClusterSizeMetric ==
  \E metric \in {Str("count"), Str("weight")} :
    /\ ops < MaxPipeOps
    /\ PipeReturn(setClusterSizeMetric(Now, metric, ops + 1), "setClusterSizeMetric")

PipeUpdateClusterRadius ==
  \E value \in {Num(CLUSTER_RADIUS), Num(600)} :
    /\ ops < MaxPipeOps
    /\ PipeReturn(updateClusterRadius(Now, value, ops + 1), "updateClusterRadius")

PipeHandleClusterOpacityChange ==
  \E opacity \in {Num(CLUSTER_OPACITY), Num(5)} :
    /\ ops < MaxPipeOps
    /\ PipeReturn(handleClusterOpacityChange(Now, opacity), "handleClusterOpacityChange")

PipeUpdateHeatmap ==
  \E settings \in
       { [intensity |-> Num(HEATMAP_INTENSITY), radius |-> Num(HEATMAP_RADIUS),
          opacity |-> Num(HEATMAP_OPACITY)],
         [intensity |-> Num(20), radius |-> Num(300), opacity |-> Num(5)] } :
    /\ ops < MaxPipeOps
    /\ PipeReturn(updateHeatmap(Now, settings), "updateHeatmap")

\* A direct call of updateClusterOpacity(opacity).
PipeUpdateClusterOpacity ==
  \E opacity \in {Num(5), Num(10)} :
    /\ ops < MaxPipeOps
    /\ PipeReturn([Now EXCEPT !.engine = updateClusterOpacity(@, state, opacity)],
                  "updateClusterOpacity")

\* A direct call of updateHeatmapProperties(settings) with all or some settings.
PipeUpdateHeatmapProperties ==
  \E settings \in
       { [intensity |-> Num(20), radius |-> Num(300), opacity |-> Num(5)],
         [intensity |-> Undefined, radius |-> Num(400), opacity |-> Undefined],
         [opacity |-> Num(10)] } :
    /\ ops < MaxPipeOps
    /\ PipeReturn([Now EXCEPT !.engine = updateHeatmapProperties(@, state, settings)],
                  "updateHeatmapProperties")

PipeUpdateMarkerSize ==
  \E value \in {Num(MARKER_BASE_SIZE), Num(10)} :
    /\ ops < MaxPipeOps
    /\ PipeReturn(updateMarkerSize(Now, value, ops + 1), "updateMarkerSize")

PipeUpdateColors ==
  \E primary \in {Str("#3b82f6"), Str("#00ff00")} :
    /\ ops < MaxPipeOps
    /\ PipeReturn(updateColors(Now, primary, Str("#ef4444"), ops + 1), "updateColors")

PipeChangeStyle ==
  /\ ops < MaxPipeOps
  /\ state.map # Null
  /\ ~engine.reloading
  /\ PipeReturn([Now EXCEPT !.engine = changeStyle(@)], "changeStyle")

\* The engine has loaded the new style and reports idle.
PipeStyleIdle ==
  /\ ops < MaxPipeOps
  /\ engine.reloading /\ ~engine.styleLoaded
  /\ PipeReturn([Now EXCEPT !.engine.styleLoaded = TRUE], "idle")

PipeStyleLoadedCallback ==
  /\ ops < MaxPipeOps
  /\ engine.reloading /\ engine.styleLoaded
  /\ PipeReturn(styleLoadedCallback(Now, ops + 1), "handleStyleLoaded")

NextPipe ==
  \/ PipeInitMap
  \/ PipeMapLoad
  \/ PipeRebuildForMode
  \/ PipeRegenerateData
  \/ PipeSwitchMode
  \/ PipeSetCategoryFilter
  \/ PipeSetVolumeFilter
  \/ PipeSetClusterSizeMetric
  \/ PipeUpdateClusterRadius
  \/ PipeHandleClusterOpacityChange
  \/ PipeUpdateHeatmap
  \/ PipeUpdateClusterOpacity
  \/ PipeUpdateHeatmapProperties
  \/ PipeUpdateMarkerSize
  \/ PipeUpdateColors
  \/ PipeChangeStyle
  \/ PipeStyleIdle
  \/ PipeStyleLoadedCallback

SpecPipe == InitPipe /\ [][NextPipe]_vars

----------------------------------------------------------------------------
\* Properties of the pipeline

\* The engine holds what the Layer Pipeline is to show for the state st: the
\* filtered points as the data of the 'points' source, clustered in clusters
\* mode under the current cluster settings, and the layers of the mode built
\* from the current settings and colours; nothing at all when no point passes
\* the filters.
EngineShows(E, st) ==
  LET points == ReferenceFilter(st.rawData.items, st.filters)
  IN IF Len(points) = 0
       THEN E.source = Null /\ E.layers = << >>
       ELSE /\ E.source # Null
            /\ PointIds(E.source.data.features) = PointIds(points)
            /\ E.source.cluster = (st.mode = Str("clusters"))
            /\ E.source.clusterRadius = st.cluster.radius
            /\ E.source.clusterMaxZoom = st.cluster.maxZoom
            /\ E.layers = createLayersForMode(st)

\* C3: when a handler of the controls that changes the mode, a filter, a colour
\* or a setting has run to its end with the style loaded, the engine holds
\* exactly the source data and the layers of the current mode, filters and
\* settings.
C3_EngineMatchesStateAfterHandler ==
  lastOp.name \in UIHandlers /\ engine.styleLoaded => EngineShows(engine, state)

\* The same, for the handlers that leave some point to show and run while no
\* style reload is under way.
C3_EngineMatchesStateWhenPointsRemain ==
  /\ lastOp.name \in UIHandlers
  /\ engine.styleLoaded /\ ~engine.reloading
  /\ Len(ReferenceFilter(state.rawData.items, state.filters)) > 0
  => EngineShows(engine, state)

\* C10: no subscriber called during a regeneration finds the new rawData in the
\* store next to the geoJSON of the dataset before it.
C10_RegenerationIsAtomic ==
  lastOp.name = "regenerateData" =>
    \A i \in 1..Len(calls) : calls[i].geoRef # 0 => calls[i].rawRef = calls[i].geoRef

\* The ids of a sequence of layers, in order.
LayerIds(layers) == [i \in 1..Len(layers) |-> layers[i].id]

\* The calls of the given methods in the engine's log, in order.
LoggedCalls(methods) == SelectSeq(engine.log, LAMBDA call : call.method \in methods)

\* x comes before y in seq, both being in it.
Precedes(seq, x, y) ==
  \E i, j \in 1..Len(seq) : i < j /\ seq[i] = x /\ seq[j] = y

\* The map and its style were ready when the last handler ended.
EngineReady == state.map # Null /\ engine.styleLoaded

PointsToShow == ReferenceFilter(state.rawData.items, state.filters)

\* C13: a rebuildForMode() call made with no map, or while the style is not
\* loaded, returns 0 and sends the engine no addSource, removeSource, addLayer
\* or removeLayer call, so that the layers and the source stay as they were;
\* and the engine's becoming ready later starts no rebuild by itself.
C13_NotReadyRebuildIsNoOp ==
  [][ /\ lastOp'.name = "rebuildForMode" /\ (state.map = Null \/ ~engine.styleLoaded)
        => /\ lastOp'.value = Num(0)
           /\ engine'.log = << >>
           /\ engine'.layers = engine.layers
           /\ engine'.source = engine.source
      /\ lastOp'.name \in {"initMap", "idle"}
        => /\ engine'.log = << >>
           /\ engine'.layers = engine.layers
           /\ engine'.source = engine.source ]_vars

\* A rebuild was skipped only because the style was still loading: there is a
\* map and there are points to show.
C13_Witness ==
  /\ lastOp.name = "rebuildForMode"
  /\ state.map # Null /\ ~engine.styleLoaded
  /\ Len(PointsToShow) > 0
  /\ lastOp.value = Num(0)

\* C14: when the map is ready and the filters leave no point of a dataset that
\* has points, rebuildForMode() leaves the engine without any layer of the
\* application and without the 'points' source, and returns 0.
C14_EmptyFilterClearsMap ==
  /\ lastOp.name = "rebuildForMode"
  /\ EngineReady
  /\ Len(state.rawData.items) > 0 /\ Len(PointsToShow) = 0
  => /\ engine.layers = << >>
     /\ engine.source = Null
     /\ lastOp.value = Num(0)

C16_RebuildIsIdempotent ==
  [][ lastOp.name = "rebuildForMode" /\ lastOp'.name = "rebuildForMode"
        => /\ engine'.source = engine.source
           /\ engine'.layers = engine.layers
           /\ lastOp'.value = lastOp.value ]_vars

\* Two rebuilds in a row that both went through.
C16_Witness ==
  /\ lastOp.name = "rebuildForMode" /\ lastOp.before = "rebuildForMode"
  /\ Len(engine.layers) > 0
  /\ Len(LoggedCalls({"removeLayer"})) > 0
  /\ Len(LoggedCalls({"addLayer"})) > 0

\* C28: a call of updateClusterOpacity or updateHeatmapProperties leaves the
\* store, the selectors' caches, the source and the list of layers as they
\* were, notifies nobody and does not throw; every engine call it makes is a
\* setPaintProperty on a layer that is present, so there is none when there is
\* no map or the mode's layers are not on the map; and the handlers that call
\* them leave the mode, the source and the list of layers alone.
C28_PaintUpdatesOnlyPaint ==
  [][ /\ IsCallOf({"updateClusterOpacity", "updateHeatmapProperties"}) =>
           /\ state' = state /\ batchMode' = batchMode
           /\ pendingNotifications' = pendingNotifications
           /\ calls' = << >> /\ selectors' = selectors /\ storage' = storage
           /\ ~lastOp'.threw
           /\ engine'.log = << >> => engine'.layers = engine.layers
      /\ IsCallOf({"updateClusterOpacity", "updateHeatmapProperties",
                   "handleClusterOpacityChange", "updateHeatmap"}) =>
           /\ state'.mode = state.mode
           /\ LayerIds(engine'.layers) = LayerIds(engine.layers)
           /\ engine'.source = engine.source
           /\ engine'.styleLoaded = engine.styleLoaded
           /\ \A i \in 1..Len(engine'.log) :
                /\ engine'.log[i].method = "setPaintProperty"
                /\ state.map # Null
                /\ HasLayer(engine, engine'.log[i].id) ]_vars

\* updateClusterOpacity was called while the heatmap was on the map: no engine
\* call was made.
C28_Witness ==
  /\ lastOp.name = "updateClusterOpacity"
  /\ state.mode = Str("heatmap") /\ HasLayer(engine, "heatmap")
  /\ engine.log = << >>

\* updateHeatmapProperties was called with the radius alone while the heatmap
\* was on the map: one property was set.
C28_WitnessPainted ==
  /\ lastOp.name = "updateHeatmapProperties"
  /\ engine.log = << PaintCall("heatmap", "heatmap-radius") >>
  /\ \E i \in 1..Len(engine.layers) :
       /\ engine.layers[i].id = "heatmap"
       /\ engine.layers[i].props.heatmapRadius = Num(400)
       /\ engine.layers[i].props.heatmapOpacity = state.heatmap.opacity

\* The engine accepts the calls of log from the i-th on, having the source or
\* not and holding the layers ids: no removeSource while a layer is present, no
\* addLayer without the source, no addSource or addLayer of an id it holds.
RECURSIVE EngineAccepts(_, _, _, _)
EngineAccepts(hasSource, ids, log, i) ==
  IF i > Len(log) THEN TRUE
  ELSE CASE log[i].method = "removeSource" ->
              ids = {} /\ EngineAccepts(FALSE, ids, log, i + 1)
         [] log[i].method = "addSource" ->
              ~hasSource /\ EngineAccepts(TRUE, ids, log, i + 1)
         [] log[i].method = "addLayer" ->
              /\ hasSource /\ log[i].id \notin ids
              /\ EngineAccepts(hasSource, ids \cup {log[i].id}, log, i + 1)
         [] log[i].method = "removeLayer" ->
              EngineAccepts(hasSource, ids \ {log[i].id}, log, i + 1)
         [] OTHER -> EngineAccepts(hasSource, ids, log, i + 1)

\* C30: every handler's engine calls, made in their order on the engine as
\* the handler found it, remove the 'points' source only when no layer of the
\* application is left, add a layer only when the source exists, and add no
\* source or layer whose id is present; in every state reached a layer is
\* present only with the source, and no layer id is present twice.
C30_LayersBeforeSource ==
  [][ /\ EngineAccepts(engine.source # Null, Range(LayerIds(engine.layers)), engine'.log, 1)
      /\ engine'.layers # << >> => engine'.source # Null
      /\ \A i, j \in 1..Len(engine'.layers) :
           engine'.layers[i].id = engine'.layers[j].id => i = j ]_vars

\* The mode went from clusters to heatmap: five layers and then the source were
\* removed, the source and then the heatmap layer were added.
C30_Witness ==
  /\ lastOp.name = "switchMode"
  /\ state.mode = Str("heatmap")
  /\ Len(LoggedCalls({"removeLayer"})) = 5
  /\ [i \in 1..Len(engine.log) |-> engine.log[i].method] =
       << "removeLayer", "removeLayer", "removeLayer", "removeLayer", "removeLayer",
          "removeSource", "addSource", "addLayer" >>

----------------------------------------------------------------------------
\* The store and its storage entry: main.js init(), the settings panel, and
\* whatever else writes the entry of this origin

\* The numeric per-mode settings.
NumericSettings ==
  { <<"cluster", "radius">>, <<"cluster", "maxZoom">>, <<"cluster", "opacity">>,
    <<"heatmap", "intensity">>, <<"heatmap", "radius">>, <<"heatmap", "opacity">>,
    <<"markers", "baseSize">> }

\* The values tried for a setting through setStateValidated: one at the edge of
\* its range and one just outside (tenths).
PerCandidates(key) ==
  CASE key = <<"mode">> -> {Str("heatmap"), Str("invalid")}
    [] key = <<"cluster", "radius">> -> {Num(2000), Num(2010)}
    [] key = <<"cluster", "maxZoom">> -> {Num(0), Num(230)}
    [] key = <<"cluster", "opacity">> -> {Num(10), Num(11)}
    [] key = <<"heatmap", "intensity">> -> {Num(1), Num(0)}
    [] key = <<"heatmap", "radius">> -> {Num(50), Num(40)}
    [] key = <<"heatmap", "opacity">> -> {Num(0), Num(-1)}
    [] key = <<"markers", "baseSize">> -> {Num(30), Num(31)}

\* Entries found in storage that this run's persistState did not write: a
\* snapshot with leaves out of their domains, one whose mode is an object, the
\* text 'null', a text that is no JSON, and a storage that cannot be read.
ForeignEntries ==
  { Stored("other", <<"mode", "cluster", "colors">>,
           [mode |-> Str("markers"),
            cluster |-> [radius |-> Num(9990), opacity |-> Num(5)],
            colors |-> [primary |-> Str("red"), secondary |-> Str("#00ff00")]]),
    Stored("other", <<"filters", "mode">>,
           [filters |-> [volume |-> Str("large")], mode |-> [legacy |-> Num(10)]]),
    Stored("other", << >>, Null),
    Unparseable,
    Unreadable }

\* After the modules are loaded: the defaults, nothing stored, and subscribers
\* to '*', to a leaf and to its parent.
InitPer ==
  Loaded([key \in {<<"*">>, <<"mode">>, <<"cluster">>, <<"colors", "primary">>} |-> <<"f">>],
         Null, NoEngine)

\* A call on the store has returned S and the value ret; the entry is now entry.
PerReturn(S, name, ret, entry) ==
  /\ state' = S.state
  /\ batchMode' = S.batchMode
  /\ pendingNotifications' = S.pendingNotifications
  /\ calls' = S.calls
  /\ storage' = entry
  /\ lastOp' = [NoOp EXCEPT !.name = name, !.old = state, !.ret = ret, !.threw = S.threw,
                            !.before = lastOp.name]
  /\ ops' = ops + 1
  /\ UNCHANGED <<obsVars, subscribers, pc, fnWrites, selectors, returned, seen, engine>>

PerSetStateValidated ==
  \E key \in NumericSettings \cup {<<"mode">>} : \E value \in PerCandidates(key) :
    /\ ops < MaxPerOps
    /\ LET r == setStateValidated(Store, key, value)
       IN PerReturn(r.store, "setStateValidated", r.ret, storage)

PerSetMode ==
  \E mode \in {Str("heatmap"), Str("invalid")} :
    /\ ops < MaxPerOps
    /\ PerReturn(setMode(Store, mode), "setMode", TRUE, storage)

PerSetFilter ==
  \E value \in {Str("large"), Str("huge")} :
    /\ ops < MaxPerOps
    /\ PerReturn(setFilter(Store, "volume", value), "setFilter", TRUE, storage)

PerSetColor ==
  \E value \in {Str("#00ff00"), Str("red")} :
    /\ ops < MaxPerOps
    /\ PerReturn(setColor(Store, "primary", value), "setColor", TRUE, storage)

PerResetState ==
  /\ ops < MaxPerOps
  /\ PerReturn(resetState(Store), "resetState", TRUE, storage)

PerPersistState ==
  /\ ops < MaxPerOps
  /\ LET r == persistState(state, storage)
     IN PerReturn(Store, "persistState", r.ret, r.storage)

PerClearPersistedState ==
  /\ ops < MaxPerOps
  /\ storage # Null
  /\ PerReturn(Store, "clearPersistedState", TRUE, clearPersistedState(storage))

\* Another page of the origin, or another version of the application, has
\* written the entry.
PerForeignEntry ==
  \E entry \in ForeignEntries :
    /\ ops < MaxPerOps
    /\ storage # entry
    /\ PerReturn(Store, "storage", TRUE, entry)

PerRestoreState ==
  /\ ops < MaxPerOps
  /\ LET r == restoreState(Store, storage)
     IN PerReturn(r.store, "restoreState", r.ret, storage)

NextPer ==
  \/ PerSetStateValidated
  \/ PerSetMode
  \/ PerSetFilter
  \/ PerSetColor
  \/ PerResetState
  \/ PerPersistState
  \/ PerClearPersistedState
  \/ PerForeignEntry
  \/ PerRestoreState

SpecPer == InitPer /\ [][NextPer]_vars

----------------------------------------------------------------------------
\* Properties of reset and persistence

\* value is a number between lo and hi (tenths).
Within(value, lo, hi) == value.t = "number" /\ lo <= value.n /\ value.n <= hi

\* The persisted part of st is the one of the initial state.
HoldsDefaults(st) ==
  \A k \in Range(persistedKeys) : getStateIn(st, <<k>>) = getStateIn(InitialState, <<k>>)

\* The entry is the text of a JSON object.
HoldsObject(entry) == entry \notin {Null, Unparseable, Unreadable} /\ entry.value # Null

\* The leaves of a stored object from its key number i on, in order, whether
\* valid or not.
RECURSIVE leavesFrom(_, _)
leavesFrom(stored, i) ==
  IF i > Len(stored.order) THEN << >>
  ELSE restoreEntryUnvalidated(stored.value, stored.order[i]) \o leavesFrom(stored, i + 1)

StoredLeaves(stored) == Range(leavesFrom(stored, 1))

\* The verdict of the validator setStateValidated applies to the leaf.
LeafPasses(leaf) == leaf.key \in ValidatedKeys => validators(leaf.key, leaf.value)

\* The entry has the layout of a persisted snapshot, or part of it: the mode
\* as a value, the other persisted keys as objects.
IsSnapshot(entry) ==
  /\ HoldsObject(entry)
  /\ \A k \in Range(entry.order) :
       /\ k \in Range(persistedKeys)
       /\ IsObject(entry.value[k]) = (k # "mode")

ResetKeys == {resetWrites[i].key : i \in 1..Len(resetWrites)}

RestoredOntoDefaults ==
  /\ lastOp.name = "restoreState"
  /\ HoldsObject(storage) /\ storage.writer = "persistState"
  /\ HoldsDefaults(lastOp.old)

\* C18: persistState() and then restoreState() on a store holding the defaults
\* gives back the saved mode, filters, settings and colours, whatever the state
\* was when persistState() ran.
C18_RoundTrip == RestoredOntoDefaults => Persisted(state) = storage

\* C18 for the saved states whose leaves all pass their validators.
C18_RoundTripOfValidLeaves ==
  RestoredOntoDefaults /\ (\A leaf \in StoredLeaves(storage) : LeafPasses(leaf))
    => Persisted(state) = storage

\* A saved state other than the defaults came back.
C18_Witness ==
  /\ RestoredOntoDefaults
  /\ \A leaf \in StoredLeaves(storage) : LeafPasses(leaf)
  /\ ~HoldsDefaults(state)

\* C19: restoreState() on a stored snapshot returns true, writes every leaf that
\* passes the validator of its path (any value where the path has none), and
\* leaves the field of every other leaf as it was.
C19_RestoreValidatesEachLeaf ==
  lastOp.name = "restoreState" /\ IsSnapshot(storage) =>
    /\ lastOp.ret = TRUE
    /\ \A leaf \in StoredLeaves(storage) :
         IF LeafPasses(leaf)
           THEN getState(leaf.key) = leaf.value
           ELSE getState(leaf.key) = getStateIn(lastOp.old, leaf.key)

\* A snapshot with an invalid leaf and with a valid leaf that changed its field.
C19_Witness ==
  /\ lastOp.name = "restoreState" /\ IsSnapshot(storage)
  /\ \E leaf \in StoredLeaves(storage) :
       ~LeafPasses(leaf) /\ leaf.value # getStateIn(lastOp.old, leaf.key)
  /\ \E leaf \in StoredLeaves(storage) :
       LeafPasses(leaf) /\ leaf.value # getStateIn(lastOp.old, leaf.key)

\* C20: restoreState() does not throw, and when it returns false the state is
\* what it was before the call and no subscriber was called.
C20_FailedRestoreLeavesState ==
  lastOp.name = "restoreState" =>
    /\ ~lastOp.threw
    /\ lastOp.ret = FALSE => state = lastOp.old /\ calls = << >>

----------------------------------------------------------------------------
\* validateState under its callers: the validation part of the enhanced-state test

\* The range each numeric setting is declared to have, in tenths; the marker
\* settings of the store hold no opacity.
DeclaredRange(key) ==
  CASE key = <<"cluster", "radius">> -> [lo |-> 100, hi |-> 2000]
    [] key = <<"cluster", "maxZoom">> -> [lo |-> 0, hi |-> 220]
    [] key = <<"cluster", "opacity">> -> [lo |-> 0, hi |-> 10]
    [] key = <<"heatmap", "intensity">> -> [lo |-> 1, hi |-> 50]
    [] key = <<"heatmap", "radius">> -> [lo |-> 50, hi |-> 1000]
    [] key = <<"heatmap", "opacity">> -> [lo |-> 0, hi |-> 10]
    [] key = <<"markers", "opacity">> -> [lo |-> 0, hi |-> 10]
    [] key = <<"markers", "baseSize">> -> [lo |-> 1, hi |-> 30]

NumericPaths == NumericSettings \cup {<<"markers", "opacity">>}

\* Paths of the state for which the table holds no predicate.
UnregisteredPaths == {<<"cluster", "sizeMetric">>, <<"autoSwitchedToCluster">>, <<"rawData">>}

ValKeys == ValidatedKeys \cup NumericPaths \cup UnregisteredPaths \cup InheritedKeys

\* The values passed for a key: for a range its two bounds, the values next to
\* them and values of other types.
ValCandidates(key) ==
  IF key \in NumericPaths
    THEN LET r == DeclaredRange(key)
         IN { Num(r.lo), Num(r.hi), Num(r.lo - 1), Num(r.hi + 1),
              Str("50"), Bool(TRUE), Null, Undefined, BigInt(r.lo) }
  ELSE IF key = <<"mode">>
    THEN MODES \cup {Str("invalid"), Str(""), Num(10), Null}
  ELSE IF key = <<"filters", "volume">>
    THEN {Str("all"), Str("small"), Str("medium"), Str("large"), Str("huge"), Num(10), Null}
  ELSE IF key = <<"filters", "category">>
    THEN {Str("all"), Str("Restaurant"), Str(""), Num(10), Null, Bool(TRUE)}
  ELSE IF key = <<"markers", "scaleByVolume">>
    THEN {Bool(TRUE), Bool(FALSE), Str("yes"), Num(10), Null}
  ELSE IF key \in {<<"colors", "primary">>, <<"colors", "secondary">>}
    THEN { Str("#3b82f6"), Str("#FF00FF"), Str("#ff0000"), Str("red"), Str("#fff"),
           Str("#ff00000"), Str("#ff000g"), Str("ff00000"), Str(""), Num(10), Null }
  ELSE {Str("count"), Str("anything"), Num(-10), Bool(FALSE), Null, Arr(0, << >>)}

\* validateState(key, value) has returned its verdict, or has thrown.
ValValidateState ==
  \E key \in ValKeys : \E value \in ValCandidates(key) :
    /\ ops < MaxValOps
    /\ LET validation == validateState(key, value)
       IN lastOp' = [name |-> "validateState", key |-> key, value |-> value, old |-> state,
                     ret |-> validation.valid, threw |-> validation.threw,
                     before |-> lastOp.name]
    /\ ops' = ops + 1
    /\ UNCHANGED <<obsVars, state, subscribers, batchMode, pendingNotifications, calls, pc, fnWrites,
                   selVars, engine>>

ValSetStateValidated ==
  \E key \in {<<"mode">>, <<"cluster", "radius">>, <<"markers", "opacity">>} :
    \E value \in {Str("heatmap"), Num(600), Num(9990)} :
      /\ ops < MaxValOps
      /\ LET r == setStateValidated(Store, key, value)
         IN /\ state' = r.store.state
            /\ batchMode' = r.store.batchMode
            /\ pendingNotifications' = r.store.pendingNotifications
            /\ calls' = r.store.calls
            /\ lastOp' = [name |-> "setStateValidated", key |-> key, value |-> value,
                          old |-> state, ret |-> r.ret, threw |-> r.store.threw,
                          before |-> lastOp.name]
      /\ ops' = ops + 1
      /\ UNCHANGED <<obsVars, subscribers, pc, fnWrites, selVars, engine>>

NextVal ==
  \/ ValValidateState
  \/ ValSetStateValidated

SpecVal == InitPer /\ [][NextVal]_vars

----------------------------------------------------------------------------
\* Properties of validateState

Validated == lastOp.name = "validateState"

\* C23: validateState accepts a value for a numeric setting exactly when it is
\* a number within the declared range of the setting, the bounds included:
\* cluster.radius [10,200], cluster.maxZoom [0,22], the cluster, heatmap and
\* marker opacity [0,1], heatmap.intensity [0.1,5], heatmap.radius [5,100] and
\* markers.baseSize [0.1,3].
C23_AcceptsExactlyTheDeclaredRanges ==
  Validated /\ lastOp.key \in NumericPaths =>
    (lastOp.ret <=> Within(lastOp.value, DeclaredRange(lastOp.key).lo,
                           DeclaredRange(lastOp.key).hi))

\* The strings of the model that are '#' followed by six hexadecimal digits.
WellFormedColours == {Str("#3b82f6"), Str("#FF00FF"), Str("#ff0000")}

\* C24: validateState returns a verdict and changes nothing; the verdict is
\* pass exactly for a mode among clusters, heatmap and markers, for a volume
\* filter among all, small, medium and large, for a category filter that is a
\* string and for a colour that is '#' followed by six hexadecimal digits, and
\* it is pass for every value of a path that has no predicate.
C24_ValidateIsPureVerdict ==
  Validated =>
    /\ ~lastOp.threw
    /\ lastOp.old = state
    /\ lastOp.key = <<"mode">> => (lastOp.ret <=> lastOp.value \in MODES)
    /\ lastOp.key = <<"filters", "volume">> =>
         (lastOp.ret <=> lastOp.value \in {Str("all"), Str("small"), Str("medium"), Str("large")})
    /\ lastOp.key = <<"filters", "category">> => (lastOp.ret <=> lastOp.value.t = "string")
    /\ lastOp.key \in {<<"colors", "primary">>, <<"colors", "secondary">>} =>
         (lastOp.ret <=> lastOp.value \in WellFormedColours)
    /\ lastOp.key \notin ValidatedKeys \cup NumericPaths => lastOp.ret

----------------------------------------------------------------------------
\* The store under subscribers that come and go: test-state.mjs

\* The keys subscribed to: a path, a parent path and the wildcard.
SubKeys == {<<"mode">>, <<"cluster">>, <<"*">>}

SubCallbacks == {"f", "g"}

\* The modules as loaded, nobody having subscribed.
InitSub == Loaded([key \in {} |-> << >>], Null, NoEngine)

\* A call that changes the subscriptions has returned.
SubChanged(subs, name, key, callback, gone) ==
  /\ subscribers' = subs
  /\ unsubscribed' = gone
  /\ calls' = << >>
  /\ lastOp' = [name |-> name, key |-> key, value |-> Str(callback), old |-> Callbacks(key),
                ret |-> TRUE, threw |-> FALSE, before |-> lastOp.name]
  /\ ops' = ops + 1
  /\ UNCHANGED <<state, batchMode, pendingNotifications, pc, fnWrites, selVars, engine,
                 stateHistory, historyEnabled, timers>>

\* subscribe(key, callback); a callback whose unsubscribe function was called
\* for the key is not subscribed to it anew.
SubSubscribe ==
  \E key \in SubKeys : \E callback \in SubCallbacks :
    /\ ops < MaxSubOps
    /\ [key |-> key, cb |-> callback] \notin unsubscribed
    /\ SubChanged(subscribe(subscribers, key, callback), "subscribe", key, callback,
                  unsubscribed)

\* A call of a function that subscribe(key, callback) returned, the first call
\* of it or a later one.
SubUnsubscribe ==
  \E key \in SubKeys : \E callback \in SubCallbacks :
    /\ ops < MaxSubOps
    /\ \/ callback \in Range(Callbacks(key))
       \/ [key |-> key, cb |-> callback] \in unsubscribed
    /\ SubChanged(unsubscribe(subscribers, key, callback), "unsubscribe", key, callback,
                  unsubscribed \cup {[key |-> key, cb |-> callback]})

\* A mutator has returned S.
SubWrote(S, name, key, value) ==
  /\ state' = S.state
  /\ batchMode' = S.batchMode
  /\ pendingNotifications' = S.pendingNotifications
  /\ calls' = S.calls
  /\ lastOp' = [name |-> name, key |-> key, value |-> value, old |-> getState(key),
                ret |-> TRUE, threw |-> S.threw, before |-> lastOp.name]
  /\ ops' = ops + 1
  /\ UNCHANGED <<obsVars, subscribers, pc, fnWrites, selVars, engine>>

SubSetMode ==
  \E mode \in {Str("clusters"), Str("heatmap")} :
    /\ ops < MaxSubOps
    /\ SubWrote(setMode(Store, mode), "setMode", <<"mode">>, mode)

SubSetClusterSetting ==
  \E value \in {Num(CLUSTER_RADIUS), Num(600)} :
    /\ ops < MaxSubOps
    /\ SubWrote(setClusterSetting(Store, "radius", value), "setClusterSetting",
                <<"cluster", "radius">>, value)

NextSub ==
  \/ SubSubscribe
  \/ SubUnsubscribe
  \/ SubSetMode
  \/ SubSetClusterSetting

SpecSub == InitSub /\ [][NextSub]_vars

----------------------------------------------------------------------------
\* Properties of the subscriptions

\* The subscription keys under which a change of key is announced.
AnnouncedUnder(key) ==
  {key, <<"*">>} \cup (IF Len(key) > 1 THEN {<<key[1]>>} ELSE {})

\* C26: once the function returned by subscribe(path, cb) was called, no
\* operation calls cb under its subscription to the path again, the call of
\* the function takes cb alone out of the subscribers of the path, and every
\* effective write still calls each callback that is subscribed to a key the
\* change is announced under.
C26_UnsubscribedIsNotCalledAgain ==
  /\ \A u \in unsubscribed : CallsTo(u.key, u.cb) = {}
  /\ lastOp.name = "unsubscribe" =>
       Callbacks(lastOp.key) = SelectSeq(lastOp.old, LAMBDA cb : Str(cb) # lastOp.value)
  /\ lastOp.name \in Mutators /\ lastOp.old # lastOp.value =>
       \A sub \in AnnouncedUnder(lastOp.key) : \A cb \in Range(Callbacks(sub)) :
         Cardinality(CallsTo(sub, cb)) = 1

\* f and g had subscribed to mode, f was unsubscribed, and the mode changed:
\* g was called and f was not.
C26_Witness ==
  /\ [key |-> <<"mode">>, cb |-> "f"] \in unsubscribed
  /\ lastOp.name = "setMode" /\ lastOp.old # lastOp.value
  /\ Callbacks(<<"mode">>) = <<"g">>
  /\ CallsTo(<<"mode">>, "g") # {}
  /\ CallsTo(<<"mode">>, "f") = {}

----------------------------------------------------------------------------
\* The state history: enableHistory, disableHistory, getHistory, clearHistory

MAX_HISTORY == 100

\* The listeners that the calls of enableHistory create, in the order of the
\* calls: every call creates a new function.
HistoryListeners ==
  <<"history1", "history2", "history3", "history4", "history5", "history6">>

\* The history listeners subscribed so far.
ListenersMade == Cardinality({cb \in Range(Callbacks(<<"*">>)) : cb \in Range(HistoryListeners)})

\* A history listener that pushes and never shifts.
historyListenerKeepingAll(history, enabled, arg, now) ==
  IF ~enabled THEN history
  ELSE Append(history, [timestamp |-> now, key |-> arg.key, newValue |-> arg.value])

\* The listener enableHistory subscribes to '*', called with {key, value}.
historyListener(history, enabled, arg, now) ==
  IF ~enabled THEN history
  ELSE LET pushed == Append(history,
                            [timestamp |-> now, key |-> arg.key, newValue |-> arg.value])
       IN IF Len(pushed) > MAX_HISTORY THEN Tail(pushed) ELSE pushed

\* The history after the subscriber calls from the i-th on, in their order.
RECURSIVE recordHistory(_, _, _, _, _)
recordHistory(history, enabled, made, i, now) ==
  IF i > Len(made) THEN history
  ELSE recordHistory(IF made[i].cb \in Range(HistoryListeners)
                       THEN historyListener(history, enabled, made[i].arg, now)
                       ELSE history,
                     enabled, made, i + 1, now)

\* getHistory(limit): a copy, or its last limit entries when limit is truthy.
getHistory(history, limit) ==
  IF limit = 0 \/ limit >= Len(history) THEN history
  ELSE SubSeq(history, Len(history) - limit + 1, Len(history))

\* The entries of MAX_HISTORY - 1 changes of the mode made before the run.
PastHistory ==
  [i \in 1..(MAX_HISTORY - 1) |->
     [timestamp |-> i - MAX_HISTORY, key |-> <<"mode">>,
      newValue |-> IF i % 2 = 1 THEN InitialState.mode ELSE Str("heatmap")]]

\* The modules as loaded, or with history enabled once and MAX_HISTORY - 1
\* changes recorded.
InitHis ==
  \E past \in BOOLEAN :
    /\ state = InitialState
    /\ subscribers = [key \in {<<"*">>} |-> IF past THEN <<HistoryListeners[1]>> ELSE << >>]
    /\ stateHistory = IF past THEN PastHistory ELSE << >>
    /\ historyEnabled = past
    /\ batchMode = FALSE
    /\ pendingNotifications = <<>>
    /\ calls = <<>>
    /\ pc = "idle"
    /\ fnWrites = <<>>
    /\ lastOp = NoOp
    /\ ops = 0
    /\ selectors = InitialSelectors
    /\ returned = NoResult
    /\ seen = NothingSeen
    /\ storage = Null
    /\ engine = NoEngine
    /\ unsubscribed = {}
    /\ timers = NoTimers

\* A history function has returned.
HisCalled(name, subs, history, enabled, ret) ==
  /\ subscribers' = subs
  /\ stateHistory' = history
  /\ historyEnabled' = enabled
  /\ calls' = << >>
  /\ lastOp' = [name |-> name, key |-> <<>>, value |-> Undefined, old |-> Undefined,
                ret |-> ret, threw |-> FALSE, before |-> lastOp.name]
  /\ ops' = ops + 1
  /\ UNCHANGED <<state, batchMode, pendingNotifications, pc, fnWrites, selVars, engine,
                 unsubscribed, timers>>

HisEnableHistory ==
  /\ ops < MaxHisOps
  /\ ListenersMade < Len(HistoryListeners)
  /\ HisCalled("enableHistory",
               subscribe(subscribers, <<"*">>, HistoryListeners[ListenersMade + 1]),
               stateHistory, TRUE, TRUE)

HisDisableHistory ==
  /\ ops < MaxHisOps
  /\ HisCalled("disableHistory", subscribers, stateHistory, FALSE, TRUE)

HisClearHistory ==
  /\ ops < MaxHisOps
  /\ HisCalled("clearHistory", subscribers, << >>, historyEnabled, TRUE)

HisGetHistory ==
  \E limit \in {0, 2} :
    /\ ops < MaxHisOps
    /\ HisCalled("getHistory", subscribers, stateHistory, historyEnabled,
                 getHistory(stateHistory, limit))

\* A mutator has returned S, the history listeners having run among the
\* subscribers it called.
HisWrote(S, name, key, value) ==
  /\ state' = S.state
  /\ batchMode' = S.batchMode
  /\ pendingNotifications' = S.pendingNotifications
  /\ calls' = S.calls
  /\ stateHistory' = recordHistory(stateHistory, historyEnabled, S.calls, 1, ops + 1)
  /\ lastOp' = [name |-> name, key |-> key, value |-> value, old |-> getState(key),
                ret |-> TRUE, threw |-> S.threw, before |-> lastOp.name]
  /\ ops' = ops + 1
  /\ UNCHANGED <<subscribers, historyEnabled, pc, fnWrites, selVars, engine,
                 unsubscribed, timers>>

HisSetMode ==
  \E mode \in {Str("clusters"), Str("heatmap")} :
    /\ ops < MaxHisOps
    /\ HisWrote(setMode(Store, mode), "setMode", <<"mode">>, mode)

HisSetClusterSetting ==
  \E value \in {Num(CLUSTER_RADIUS), Num(600)} :
    /\ ops < MaxHisOps
    /\ HisWrote(setClusterSetting(Store, "radius", value), "setClusterSetting",
                <<"cluster", "radius">>, value)

NextHis ==
  \/ HisEnableHistory
  \/ HisDisableHistory
  \/ HisClearHistory
  \/ HisGetHistory
  \/ HisSetMode
  \/ HisSetClusterSetting

SpecHis == InitHis /\ [][NextHis]_vars

----------------------------------------------------------------------------
\* Properties of the state history

\* The last n entries of a sequence.
LastN(seq, n) == IF Len(seq) <= n THEN seq ELSE SubSeq(seq, Len(seq) - n + 1, Len(seq))

\* The wildcard notifications of the operation that made the calls: one per
\* changed path, as the first wildcard subscriber received them.
WildcardNotifications(made) ==
  SelectSeq(made, LAMBDA c : c.kind = "wildcard" /\ c.cb = Callbacks(<<"*">>)[1])

HistoryEntries(made, now) ==
  [i \in 1..Len(made) |->
     [timestamp |-> now, key |-> made[i].arg.key, newValue |-> made[i].arg.value]]

\* C27: a mutator appends one entry per wildcard notification while history is
\* enabled and none while it is disabled, whatever history calls came before;
\* the history never holds more than MAX_HISTORY entries, the oldest leave
\* first, and getHistory() returns it whole.
C27_HistoryIsTheRecentNotifications ==
  [][ /\ IsCallOf(Mutators) =>
           stateHistory' =
             IF historyEnabled
               THEN LastN(stateHistory
                            \o HistoryEntries(WildcardNotifications(calls'), ops'),
                          MAX_HISTORY)
               ELSE stateHistory
      /\ Len(stateHistory') <= MAX_HISTORY
      /\ IsCallOf({"getHistory"}) /\ lastOp'.ret # stateHistory =>
           lastOp'.ret = LastN(stateHistory, 2) ]_vars

\* The same with enableHistory called at most once before.
HistoryOfOneListener ==
  [][ ListenersMade <= 1 =>
      /\ IsCallOf(Mutators) =>
           stateHistory' =
             IF historyEnabled
               THEN LastN(stateHistory
                            \o HistoryEntries(WildcardNotifications(calls'), ops'),
                          MAX_HISTORY)
               ELSE stateHistory
      /\ Len(stateHistory') <= MAX_HISTORY ]_vars

\* The oldest entry has left a full history.
OldestEntryEvicted ==
  /\ Len(stateHistory) = MAX_HISTORY
  /\ stateHistory[1].timestamp > 1 - MAX_HISTORY

----------------------------------------------------------------------------
\* Debounced persistence: enableAutoPersist

\* The listeners that the calls of enableAutoPersist create.
AutoPersistListeners == <<"autoPersist1", "autoPersist2">>

AutoListenersMade ==
  Cardinality({cb \in Range(Callbacks(<<"*">>)) : cb \in Range(AutoPersistListeners)})

\* A listener that sets a timer and clears none.
autoPersistListenerNotClearing(T) ==
  [T EXCEPT !.pending = @ \cup {T.made + 1}, !.timeout = T.made + 1, !.made = T.made + 1]

\* The listener of enableAutoPersist: clearTimeout(_timeout), then
\* _timeout = setTimeout(persistState, 1000).
autoPersistListener(T) ==
  [T EXCEPT !.pending = (@ \ {T.timeout}) \cup {T.made + 1},
            !.timeout = T.made + 1,
            !.made = T.made + 1]

\* The timers after the subscriber calls from the i-th on, in their order.
RECURSIVE restartTimers(_, _, _)
restartTimers(T, made, i) ==
  IF i > Len(made) THEN T
  ELSE restartTimers(IF made[i].cb \in Range(AutoPersistListeners)
                       THEN autoPersistListener(T) ELSE T,
                     made, i + 1)

InitAuto == Loaded([key \in {<<"*">>} |-> << >>], Null, NoEngine)

\* enableAutoPersist(): one more wildcard listener.
AutoEnableAutoPersist ==
  /\ ops < MaxAutoOps
  /\ AutoListenersMade < Len(AutoPersistListeners)
  /\ subscribers' = subscribe(subscribers, <<"*">>, AutoPersistListeners[AutoListenersMade + 1])
  /\ calls' = << >>
  /\ lastOp' = [name |-> "enableAutoPersist", key |-> <<>>, value |-> Undefined,
                old |-> Undefined, ret |-> TRUE, threw |-> FALSE, before |-> lastOp.name]
  /\ ops' = ops + 1
  /\ UNCHANGED <<state, batchMode, pendingNotifications, pc, fnWrites, selVars, engine,
                 unsubscribed, stateHistory, historyEnabled, timers>>

\* A mutator has returned S, the auto-persist listeners having run among the
\* subscribers it called.
AutoWrote(S, name, key, value) ==
  LET T == restartTimers(timers, S.calls, 1)
  IN /\ state' = S.state
     /\ batchMode' = S.batchMode
     /\ pendingNotifications' = S.pendingNotifications
     /\ calls' = S.calls
     /\ timers' = [T EXCEPT !.bursts = IF timers.pending = {} /\ T.made > timers.made
                                         THEN @ + 1 ELSE @]
     /\ lastOp' = [name |-> name, key |-> key, value |-> value, old |-> getState(key),
                   ret |-> TRUE, threw |-> S.threw, before |-> lastOp.name]
     /\ ops' = ops + 1
     /\ UNCHANGED <<subscribers, pc, fnWrites, selVars, engine, unsubscribed,
                    stateHistory, historyEnabled>>

AutoSetMode ==
  \E mode \in {Str("clusters"), Str("heatmap")} :
    /\ ops < MaxAutoOps
    /\ AutoWrote(setMode(Store, mode), "setMode", <<"mode">>, mode)

AutoSetClusterSetting ==
  \E value \in {Num(CLUSTER_RADIUS), Num(600)} :
    /\ ops < MaxAutoOps
    /\ AutoWrote(setClusterSetting(Store, "radius", value), "setClusterSetting",
                 <<"cluster", "radius">>, value)

\* setMultiple({mode, 'cluster.radius'}): two notifications at the end of one call.
AutoSetMultiple ==
  \E mode \in {Str("markers")} : \E value \in {Num(700)} :
    /\ ops < MaxAutoOps
    /\ AutoWrote(batchOf(Store, << [key |-> <<"mode">>, value |-> mode],
                                   [key |-> <<"cluster", "radius">>, value |-> value] >>),
                 "setMultiple", <<"mode">>, mode)

\* The delay of a pending timer has passed: the timer runs persistState.
AutoTimerFires ==
  \E timer \in timers.pending :
    LET r == persistState(state, storage)
    IN /\ storage' = r.storage
       /\ timers' = [timers EXCEPT !.pending = @ \ {timer}, !.ran = @ + 1]
       /\ calls' = << >>
       /\ lastOp' = [name |-> "persistState", key |-> <<>>, value |-> Num(timer),
                     old |-> Undefined, ret |-> r.ret, threw |-> FALSE,
                     before |-> lastOp.name]
       /\ ops' = ops + 1
       /\ UNCHANGED <<state, subscribers, batchMode, pendingNotifications, pc, fnWrites,
                      selectors, returned, seen, engine, unsubscribed, stateHistory,
                      historyEnabled>>

NextAuto ==
  \/ AutoEnableAutoPersist
  \/ AutoSetMode
  \/ AutoSetClusterSetting
  \/ AutoSetMultiple
  \/ AutoTimerFires

SpecAuto == InitAuto /\ [][NextAuto]_vars

----------------------------------------------------------------------------
\* Properties of the debounced persistence

\* The operation that ends in the primed state sent a wildcard notification
\* to an auto-persist listener.
AutoNotified ==
  \E i \in 1..Len(calls') : calls'[i].cb \in Range(AutoPersistListeners)

\* C29: with auto-persist enabled at most one timer is pending; every wildcard
\* notification replaces the pending timer by a new one; the timer that runs
\* is the one the last notification made, it stores the state of that moment,
\* and every burst of notifications causes exactly one persistState.
C29_OnePersistPerBurst ==
  [][ /\ Cardinality(timers'.pending) <= 1
      /\ IsCallOf(Mutators \cup {"setMultiple"}) /\ AutoNotified =>
           /\ timers'.made > timers.made
           /\ timers'.pending = {timers'.made}
           /\ timers'.ran = timers.ran
      /\ IsCallOf({"persistState"}) =>
           /\ timers.pending = {timers.made}
           /\ timers'.pending = {}
           /\ state' = state
           /\ lastOp'.ret /\ storage' = Persisted(state)
      /\ timers'.ran + Cardinality(timers'.pending) = timers'.bursts ]_vars

\* A burst of three notifications, two of them of one call, was followed by
\* its one persistState.
C29_Witness ==
  /\ lastOp.name = "persistState" /\ lastOp.before = "setMultiple"
  /\ timers.made >= 3 /\ timers.bursts = 1 /\ timers.ran = 1
  /\ timers.pending = {}
  /\ storage = Persisted(state)

----------------------------------------------------------------------------
\* The layer selectors under their callers

\* A mutator has returned S.
CfgWrote(S, name) ==
  /\ state' = S.state
  /\ batchMode' = S.batchMode
  /\ pendingNotifications' = S.pendingNotifications
  /\ calls' = S.calls
  /\ lastOp' = [NoOp EXCEPT !.name = name, !.before = lastOp.name]
  /\ ops' = ops + 1
  /\ UNCHANGED <<obsVars, subscribers, pc, fnWrites, selVars, engine>>

\* A selector has returned r.
CfgCalled(r, name) ==
  /\ selectors' = r.selectors
  /\ returned' = [result |-> r.result, computed |-> r.computed]
  /\ lastOp' = [NoOp EXCEPT !.name = name, !.before = lastOp.name]
  /\ ops' = ops + 1
  /\ UNCHANGED <<obsVars, state, subscribers, batchMode, pendingNotifications, calls, pc,
                 fnWrites, seen, storage, engine>>

CfgSetMode ==
  \E mode \in MODES :
    /\ ops < MaxCfgOps
    /\ CfgWrote(setMode(Store, mode), "setMode")

CfgSetClusterSetting ==
  \E value \in {Num(CLUSTER_OPACITY), Num(5)} :
    /\ ops < MaxCfgOps
    /\ CfgWrote(setClusterSetting(Store, "opacity", value), "setClusterSetting")

CfgSetColor ==
  \E value \in {Str("#3b82f6"), Str("#00ff00")} :
    /\ ops < MaxCfgOps
    /\ CfgWrote(setColor(Store, "primary", value), "setColor")

CfgSetRawData ==
  \E dataset \in Datasets :
    /\ ops < MaxCfgOps
    /\ CfgWrote(setRawData(Store, MakeData(ops + 1, dataset)), "setRawData")

CfgGetActiveLayerIds ==
  /\ ops < MaxCfgOps
  /\ CfgCalled(activeLayerIds(selectors, state, ops + 1), "getActiveLayerIds")

CfgGetCurrentLayerConfig ==
  /\ ops < MaxCfgOps
  /\ CfgCalled(getCurrentLayerConfig(selectors, state, ops + 1), "getCurrentLayerConfig")

CfgGetFilteredData ==
  /\ ops < MaxCfgOps
  /\ CfgCalled(getFilteredData(selectors, state, ops + 1), "getFilteredData")

CfgGetFilteredGeoJSON ==
  /\ ops < MaxCfgOps
  /\ CfgCalled(getFilteredGeoJSON(selectors, state, ops + 1), "getFilteredGeoJSON")

NextCfg ==
  \/ CfgSetMode
  \/ CfgSetClusterSetting
  \/ CfgSetColor
  \/ CfgSetRawData
  \/ CfgGetActiveLayerIds
  \/ CfgGetCurrentLayerConfig
  \/ CfgGetFilteredData
  \/ CfgGetFilteredGeoJSON

SpecCfg == InitSel /\ [][NextCfg]_vars

----------------------------------------------------------------------------
\* Properties of the layer selectors

SelectorNames ==
  {"getActiveLayerIds", "getCurrentLayerConfig", "getFilteredData", "getFilteredGeoJSON"}

\* The step is the second of two calls of one of the named selectors with
\* nothing in between.
CalledAgain(names) ==
  /\ lastOp.name \in names /\ lastOp'.name = lastOp.name /\ ops' = ops + 1

\* C31: a selector called a second time, nothing having happened since its
\* first call, does not run its compute function and returns the very result
\* of the first call.
C31_SecondCallIsCached ==
  [][ CalledAgain(SelectorNames) =>
        ~returned'.computed /\ returned'.result = returned.result ]_vars

\* The same of the selectors other than getCurrentLayerConfig.
OtherSelectorsAreCached ==
  [][ CalledAgain(SelectorNames \ {"getCurrentLayerConfig"}) =>
        ~returned'.computed /\ returned'.result = returned.result ]_vars

\* getActiveLayerIds was called twice in a row in markers mode.
ActiveLayerIdsCalledAgain ==
  /\ lastOp.name = "getActiveLayerIds" /\ lastOp.before = "getActiveLayerIds"
  /\ state.mode = Str("markers") /\ ~returned.computed

----------------------------------------------------------------------------
\* getState and setState on dotted paths of every kind

\* Paths whose intermediate segments are objects of the state, absent, null
\* (geoJSON, popup) or a string (mode).
PathKeys ==
  { <<"cluster", "radius">>, <<"custom", "a", "b">>, <<"filters", "extra", "deep">>,
    <<"geoJSON", "x">>, <<"popup", "anchor", "x">>, <<"mode", "x">> }

PathValues == {Num(10), Str("a")}

InitPath == Loaded([key \in {<<"*">>} |-> <<"f">>], Null, NoEngine)

PathSetState ==
  \E key \in PathKeys : \E value \in PathValues :
    LET S == setState(Store, key, value)
    IN /\ ops < MaxPathOps
       /\ state' = S.state
       /\ batchMode' = S.batchMode
       /\ pendingNotifications' = S.pendingNotifications
       /\ calls' = S.calls
       /\ lastOp' = [name |-> "setState", key |-> key, value |-> value, old |-> getState(key),
                     ret |-> TRUE, threw |-> S.threw, before |-> lastOp.name]
       /\ ops' = ops + 1
       /\ UNCHANGED <<obsVars, subscribers, pc, fnWrites, selVars, engine>>

\* getState(key), also of the paths one segment shorter and one longer.
PathGetState ==
  \E key \in PathKeys \cup {SubSeq(k, 1, Len(k) - 1) : k \in PathKeys}
                       \cup {Append(k, "y") : k \in PathKeys} :
    /\ ops < MaxPathOps
    /\ calls' = << >>
    /\ lastOp' = [name |-> "getState", key |-> key, value |-> getState(key),
                  old |-> Undefined, ret |-> TRUE, threw |-> FALSE, before |-> lastOp.name]
    /\ ops' = ops + 1
    /\ UNCHANGED <<obsVars, state, subscribers, batchMode, pendingNotifications, pc, fnWrites,
                   selVars, engine>>

NextPath ==
  \/ PathSetState
  \/ PathGetState

SpecPath == InitPath /\ [][NextPath]_vars

----------------------------------------------------------------------------
\* Properties of the dotted paths

\* The segments of key before the last lead through st to a null or to a
\* primitive.
BlockedIn(st, key) ==
  \E i \in 1..(Len(key) - 1) :
    LET node == getStateIn(st, SubSeq(key, 1, i))
    IN node # Undefined /\ ~IsObject(node) /\ ~IsArray(node)

\* An intermediate segment of key is missing in st.
MissingIn(st, key) ==
  \E i \in 1..(Len(key) - 1) : getStateIn(st, SubSeq(key, 1, i)) = Undefined

\* C32: setState(p, v) does not throw and getState(p) is v afterwards, whatever
\* the intermediate segments of p hold; getState does not throw and yields
\* undefined for a path with a missing intermediate segment.
C32_SetThenGet ==
  /\ lastOp.name = "setState" => ~lastOp.threw /\ getState(lastOp.key) = lastOp.value
  /\ lastOp.name = "getState" =>
       /\ ~lastOp.threw
       /\ MissingIn(state, lastOp.key) => lastOp.value = Undefined

\* The same of the paths whose intermediate segments are absent or objects.
SetThenGetThroughObjects ==
  [][ /\ IsCallOf({"setState"}) /\ ~BlockedIn(state, lastOp'.key) =>
           /\ ~lastOp'.threw /\ getStateIn(state', lastOp'.key) = lastOp'.value
           /\ \A i \in 1..(Len(lastOp'.key) - 1) :
                IsObject(getStateIn(state', SubSeq(lastOp'.key, 1, i)))
      /\ IsCallOf({"setState"}) /\ BlockedIn(state, lastOp'.key) =>
           lastOp'.threw /\ state' = state /\ calls' = << >>
      /\ IsCallOf({"getState"}) =>
           /\ ~lastOp'.threw
           /\ MissingIn(state, lastOp'.key) => lastOp'.value = Undefined ]_vars

\* setState created two missing nodes on the way to its value.
PathCreated ==
  /\ lastOp.name = "setState" /\ lastOp.key = <<"custom", "a", "b">>
  /\ ~lastOp.threw /\ getState(<<"custom", "a", "b">>) = lastOp.value

----------------------------------------------------------------------------
\* Batches inside batches: batch, setMultiple and resetState called by the
\* function given to batch

NestKeys == {<<"mode">>, <<"cluster", "radius">>}

NestValues(key) ==
  IF key = <<"mode">> THEN {Str("heatmap"), Str("markers")} ELSE {Num(600), Num(700)}

InitNest == Loaded([key \in NestKeys \cup {<<"*">>} |-> <<"f">>], Null, NoEngine)

\* What the writes did between the states before and after: one entry per write.
NestWrites(writes, before, after, nested) ==
  [i \in 1..Len(writes) |->
     [key |-> writes[i].key, value |-> writes[i].value, old |-> getStateIn(before, writes[i].key),
      written |-> getStateIn(after, writes[i].key) # getStateIn(before, writes[i].key),
      nested |-> nested]]

\* A call made by the batch function, or by the caller when no batch runs, has
\* returned S.
NestReturn(S, name, writes, nested) ==
  /\ state' = S.state
  /\ batchMode' = S.batchMode
  /\ pendingNotifications' = S.pendingNotifications
  /\ calls' = S.calls
  /\ lastOp' = [NoOp EXCEPT !.name = name, !.threw = S.threw, !.before = lastOp.name]
  /\ fnWrites' = IF pc = "fn"
                   THEN fnWrites \o NestWrites(writes, state, S.state, nested)
                   ELSE << >>
  /\ ops' = ops + 1
  /\ UNCHANGED <<obsVars, subscribers, pc, selVars, engine>>

\* batch(fn) is entered and fn starts.
NestBatchBegin ==
  /\ pc = "idle"
  /\ ops < MaxNestOps
  /\ LET S == batchEnter(Caller)
     IN /\ batchMode' = S.batchMode
        /\ pendingNotifications' = S.pendingNotifications
        /\ calls' = S.calls
  /\ pc' = "fn"
  /\ fnWrites' = << >>
  /\ lastOp' = [NoOp EXCEPT !.name = "batchBegin"]
  /\ UNCHANGED <<obsVars, state, subscribers, ops, selVars, engine>>

NestSetState ==
  \E key \in NestKeys : \E value \in NestValues(key) :
    /\ ops < MaxNestOps
    /\ NestReturn(setState(Caller, key, value), "setState",
                  << [key |-> key, value |-> value] >>, FALSE)

\* setMultiple({[key]: value}), or batch(() => setState(key, value)).
NestSetMultiple ==
  \E key \in NestKeys : \E value \in NestValues(key) :
    /\ ops < MaxNestOps
    /\ NestReturn([batchOf(Caller, << [key |-> key, value |-> value] >>)
                     EXCEPT !.fnRunning = (pc = "fn")],
                  "setMultiple", << [key |-> key, value |-> value] >>, TRUE)

NestResetState ==
  /\ ops < MaxNestOps
  /\ NestReturn([resetState(Caller) EXCEPT !.fnRunning = (pc = "fn")],
                "resetState", resetWrites, TRUE)

\* fn returns and the finally block of the outer batch runs.
NestBatchEnd ==
  /\ pc = "fn"
  /\ LET S == batchFinally([Caller EXCEPT !.fnRunning = FALSE])
     IN /\ state' = S.state
        /\ batchMode' = S.batchMode
        /\ pendingNotifications' = S.pendingNotifications
        /\ calls' = S.calls
  /\ pc' = "idle"
  /\ lastOp' = [NoOp EXCEPT !.name = "batch", !.before = lastOp.name]
  /\ UNCHANGED <<obsVars, subscribers, fnWrites, ops, selVars, engine>>

NextNest ==
  \/ NestBatchBegin
  \/ NestSetState
  \/ NestSetMultiple
  \/ NestResetState
  \/ NestBatchEnd

SpecNest == InitNest /\ [][NextNest]_vars

----------------------------------------------------------------------------
\* Properties of nested batches

\* The outer batch call returns in this step.
OuterBatchReturns == pc = "fn" /\ pc' = "idle"

\* Every key in SubscribedNestKeys that the batch function changed is announced
\* to its subscriber once, by a call made after the function returned.
AnnouncedOnceAfterFn ==
  \A key \in ChangedKeys' \cap NestKeys : \A cb \in Range(Callbacks(key)) :
    /\ Cardinality(CallsAbout("exact", key, cb)') = 1
    /\ \A i \in CallsAbout("exact", key, cb)' : i > Len(calls)

\* C33: when the outermost batch call returns, whatever batch, setMultiple or
\* resetState calls its function made, batch mode is off, nothing is pending,
\* and every path changed during the batch was announced exactly once, after
\* the function returned.
C33_NestedBatchesLoseNothing ==
  [][ OuterBatchReturns =>
        /\ ~batchMode' /\ pendingNotifications' = << >>
        /\ AnnouncedOnceAfterFn ]_vars

\* The same of the batches whose function made no batch, setMultiple or
\* resetState call.
FlatBatchesLoseNothing ==
  [][ OuterBatchReturns /\ (\A i \in 1..Len(fnWrites) : ~fnWrites[i].nested) =>
        /\ ~batchMode' /\ pendingNotifications' = << >>
        /\ AnnouncedOnceAfterFn ]_vars

\* A batch with two changes and no nested call has returned.
FlatBatchReturned ==
  /\ BatchDone /\ Cardinality(ChangedKeys) = 2
  /\ \A i \in 1..Len(fnWrites) : ~fnWrites[i].nested

\* A batch has returned and a path its function changed was announced to nobody.
NotificationLost ==
  /\ BatchDone
  /\ \E key \in ChangedKeys \cap NestKeys :
       /\ getState(key) # InitialState[key[1]]
       /\ \A i \in 1..Len(calls) : calls[i].key # key

----------------------------------------------------------------------------
\* getFilteredData under callers that set rawData to anything

\* Values of rawData that are no arrays.
NonArrays == {Null, Str("points"), Num(0)}

ThrWrote(S, name) ==
  /\ state' = S.state
  /\ batchMode' = S.batchMode
  /\ pendingNotifications' = S.pendingNotifications
  /\ calls' = S.calls
  /\ lastOp' = [NoOp EXCEPT !.name = name, !.before = lastOp.name]
  /\ ops' = ops + 1
  /\ UNCHANGED <<obsVars, subscribers, pc, fnWrites, selVars, engine>>

ThrSetRawData ==
  \E data \in {MakeData(ops + 1, dataset) : dataset \in Datasets} \cup NonArrays :
    /\ ops < MaxThrowOps
    /\ ThrWrote(setRawData(Store, data), "setRawData")

ThrSetFilter ==
  \E value \in {Str("all"), Str("large")} :
    /\ ops < MaxThrowOps
    /\ ThrWrote(setFilter(Store, "volume", value), "setFilter")

\* getFilteredData() has returned or thrown.
ThrGetFilteredData ==
  LET r == getFilteredDataOfAny(selectors, state, ops + 1)
  IN /\ ops < MaxThrowOps
     /\ selectors' = r.selectors
     /\ returned' = [result |-> r.result, computed |-> r.computed]
     /\ lastOp' = [NoOp EXCEPT !.name = "getFilteredData", !.threw = r.threw,
                               !.before = lastOp.name]
     /\ ops' = ops + 1
     /\ UNCHANGED <<obsVars, state, subscribers, batchMode, pendingNotifications, calls, pc,
                    fnWrites, seen, storage, engine>>

NextThr ==
  \/ ThrSetRawData
  \/ ThrSetFilter
  \/ ThrGetFilteredData

SpecThr == InitSel /\ [][NextThr]_vars

----------------------------------------------------------------------------
\* Properties of the selector whose compute function throws

\* result is what fn() yields for the dependencies deps.
YieldedFor(result, deps) ==
  /\ IsArray(deps[1]) /\ IsArray(result)
  /\ PointIds(result.items) =
       PointIds(ReferenceFilter(deps[1].items, [volume |-> deps[2], category |-> deps[3]]))

\* C34: a getFilteredData() call that returns a value returns what the compute
\* function yields for the current dependencies, and the dependencies the
\* selector has recorded are always paired with the result computed for them,
\* also after calls in which the compute function threw.
C34_ResultBelongsToDeps ==
  /\ lastOp.name = "getFilteredData" /\ ~lastOp.threw =>
       YieldedFor(returned.result, filteredDataDeps(state))
  /\ selectors.filteredData.hasDeps =>
       YieldedFor(selectors.filteredData.cachedResult, selectors.filteredData.cachedDeps)

\* The same while rawData has been an array at every call.
ResultBelongsToArrayDeps ==
  /\ lastOp.name = "getFilteredData" /\ ~lastOp.threw /\ IsArray(state.rawData) =>
       YieldedFor(returned.result, filteredDataDeps(state))
  /\ selectors.filteredData.hasDeps /\ IsArray(selectors.filteredData.cachedDeps[1]) =>
       YieldedFor(selectors.filteredData.cachedResult, selectors.filteredData.cachedDeps)

\* A call returned the points cached for an earlier array while rawData is null.
StaleAfterThrow ==
  /\ lastOp.name = "getFilteredData" /\ ~lastOp.threw /\ lastOp.before = "getFilteredData"
  /\ state.rawData = Null
  /\ IsArray(returned.result) /\ Len(returned.result.items) > 0

----------------------------------------------------------------------------
\* Zoom events and mode choices

\* The zoom levels the engine reports, in tenths: below, at and above the threshold.
Zooms == {70, 80, 95}

\* A handler has run to its end and left W; value is its argument.
ZoomReturn(W, name, value) ==
  /\ state' = W.store.state
  /\ batchMode' = W.store.batchMode
  /\ pendingNotifications' = W.store.pendingNotifications
  /\ calls' = W.store.calls
  /\ selectors' = W.selectors
  /\ engine' = W.engine
  /\ lastOp' = [NoOp EXCEPT !.name = name, !.value = value, !.old = state.mode,
                            !.threw = W.store.threw, !.before = lastOp.name]
  /\ ops' = ops + 1
  /\ UNCHANGED <<obsVars, subscribers, pc, fnWrites, returned, seen, storage>>

\* The 'zoom' event of the map, or a call of checkAutoSwitchMode() before
\* there is a map.
ZoomEvent ==
  \E zoom \in Zooms :
    /\ ops < MaxZoomOps
    /\ ZoomReturn(checkAutoSwitchMode(Now, zoom, ops + 1), "checkAutoSwitchMode", Num(zoom))

\* The user picks a mode: switchMode(mode).
ZoomSwitchMode ==
  \E mode \in MODES :
    /\ ops < MaxZoomOps
    /\ ZoomReturn(switchMode(Now, mode, FALSE, ops + 1), "switchMode", mode)

ZoomRegenerateData ==
  \E dataset \in Datasets :
    /\ ops < MaxZoomOps
    /\ Len(dataset) = 2
    /\ ZoomReturn(regenerateData(Now, MakeData(ops + 1, dataset), ops + 1),
                  "regenerateData", Undefined)

NextZoom ==
  \/ ZoomEvent
  \/ ZoomSwitchMode
  \/ ZoomRegenerateData

SpecZoom == InitPipe /\ [][NextZoom]_vars

----------------------------------------------------------------------------
\* Properties of the automatic mode switch

AutoSwitched == state.autoSwitchedToCluster = Bool(TRUE)

\* The step handles a zoom event with a map.
ZoomHandled == IsCallOf({"checkAutoSwitchMode"}) /\ state.map # Null

\* C35: the flag is true only in clusters mode, it becomes true only by the
\* automatic switch from markers to clusters and every mode choice of the user
\* clears it; a zoom event leaves a clusters mode the user chose, and the
\* heatmap, alone; it takes an automatically entered clusters mode back to
\* markers as soon as the zoom is at least 8; and after a zoom event with zoom
\* below 8 the mode is not markers.
C35_AutoSwitchFollowsZoom ==
  [][ /\ AutoSwitched' =>
           /\ state'.mode = Str("clusters")
           /\ \/ AutoSwitched /\ ~IsCallOf({"switchMode"})
              \/ /\ ZoomHandled /\ state.mode = Str("markers")
                 /\ lastOp'.value.n < AUTO_SWITCH_THRESHOLD
      /\ IsCallOf({"switchMode"}) => ~AutoSwitched' /\ state'.mode = lastOp'.value
      /\ IsCallOf({"checkAutoSwitchMode"}) /\ ~AutoSwitched /\ state.mode # Str("markers") =>
           state' = state
      /\ ZoomHandled /\ AutoSwitched /\ lastOp'.value.n >= AUTO_SWITCH_THRESHOLD =>
           state'.mode = Str("markers") /\ ~AutoSwitched'
      /\ ZoomHandled /\ lastOp'.value.n < AUTO_SWITCH_THRESHOLD =>
           state'.mode # Str("markers")
      /\ IsCallOf({"checkAutoSwitchMode"}) /\ state.map = Null => state' = state ]_vars

\* A zoom event at the threshold took an automatically entered clusters mode
\* back to markers.
C35_Witness ==
  /\ lastOp.name = "checkAutoSwitchMode" /\ lastOp.before = "checkAutoSwitchMode"
  /\ lastOp.old = Str("clusters") /\ lastOp.value = Num(AUTO_SWITCH_THRESHOLD)
  /\ state.mode = Str("markers") /\ ~AutoSwitched

\* The user chose clusters while in an automatically entered clusters mode, and
\* the next zoom event above the threshold left the mode alone.
C35_WitnessChosen ==
  /\ lastOp.name = "checkAutoSwitchMode" /\ lastOp.before = "switchMode"
  /\ lastOp.old = Str("clusters") /\ lastOp.value = Num(95)
  /\ state.mode = Str("clusters") /\ state.map # Null

----------------------------------------------------------------------------
\* restoreState on entries that name other fields than the persisted ones

\* Entries of another origin: the flag of the automatic switch, a mode next to
\* a field the state does not have, and a partial snapshot.
OtherFieldEntries ==
  { Stored("other", <<"autoSwitchedToCluster">>, [autoSwitchedToCluster |-> Bool(TRUE)]),
    Stored("other", <<"mode", "version">>, [mode |-> Str("heatmap"), version |-> Num(20)]),
    Stored("other", <<"mode", "colors">>,
           [mode |-> Str("markers"), colors |-> [primary |-> Str("#00ff00")]]) }

ResStoredEntry ==
  \E entry \in OtherFieldEntries :
    /\ ops < MaxPerOps
    /\ storage # entry
    /\ PerReturn(Store, "storage", TRUE, entry)

NextRes ==
  \/ PerSetMode
  \/ PerSetFilter
  \/ PerSetColor
  \/ PerPersistState
  \/ ResStoredEntry
  \/ PerRestoreState

SpecRes == InitPer /\ [][NextRes]_vars

\* The call left every field but the persisted ones as before, and made no
\* new top-level field.
OnlyPersistedWritten(before, after) ==
  /\ DOMAIN after = DOMAIN before
  /\ \A k \in DOMAIN before \ Range(persistedKeys) : after[k] = before[k]

\* C36: after restoreState, whatever the entry holds, the map and popup handles,
\* rawData, geoJSON and the flag of the automatic switch are what they were
\* before the call and the state has the same top-level keys.
C36_RestoreWritesOnlyPersisted ==
  lastOp.name = "restoreState" => OnlyPersistedWritten(lastOp.old, state)

\* The same for the entries whose top-level keys are persisted keys.
RestoreOfPersistedKeysWritesOnlyPersisted ==
  /\ lastOp.name = "restoreState"
  /\ storage # Null /\ Range(storage.order) \subseteq Range(persistedKeys)
  => OnlyPersistedWritten(lastOp.old, state)

\* restoreState wrote a snapshot of persistState into a state that differed.
SnapshotRestored ==
  /\ lastOp.name = "restoreState" /\ lastOp.ret = TRUE
  /\ storage # Null /\ storage.writer = "persistState"
  /\ state # lastOp.old

\* restoreState set the flag of the automatic switch from the entry.
FlagRestored ==
  /\ lastOp.name = "restoreState" /\ lastOp.ret = TRUE
  /\ lastOp.old.autoSwitchedToCluster = Bool(FALSE)
  /\ state.autoSwitchedToCluster = Bool(TRUE)

\* restoreState made a top-level field the state did not have.
FieldAdded ==
  /\ lastOp.name = "restoreState"
  /\ "version" \in DOMAIN state /\ "version" \notin DOMAIN lastOp.old

----------------------------------------------------------------------------
\* Style changes that overlap with each other and with the handlers

\* A call has returned and left W and the pending tasks T.
StyReturn(W, name, T) ==
  /\ timers' = T
  /\ state' = W.store.state
  /\ batchMode' = W.store.batchMode
  /\ pendingNotifications' = W.store.pendingNotifications
  /\ calls' = W.store.calls
  /\ selectors' = W.selectors
  /\ engine' = W.engine
  /\ lastOp' = [NoOp EXCEPT !.name = name, !.value = W.ret, !.threw = W.store.threw,
                            !.before = lastOp.name]
  /\ ops' = ops + 1
  /\ UNCHANGED <<unsubscribed, stateHistory, historyEnabled, subscribers, pc, fnWrites,
                 returned, seen, storage>>

StyRegenerateData ==
  \E dataset \in Datasets :
    /\ ops < MaxStyleOps
    /\ Len(dataset) = 2
    /\ StyReturn(regenerateData(Now, MakeData(ops + 1, dataset), ops + 1), "regenerateData",
                 timers)

StySwitchMode ==
  \E mode \in MODES :
    /\ ops < MaxStyleOps
    /\ StyReturn(switchMode(Now, mode, FALSE, ops + 1), "switchMode", timers)

StySetVolumeFilter ==
  \E volume \in FilterValues("volume") :
    /\ ops < MaxStyleOps
    /\ StyReturn(setVolumeFilter(Now, volume, ops + 1), "setVolumeFilter", timers)

\* changeStyle(style), also while an earlier style is loading or its icons
\* and timer are pending.
StyChangeStyle ==
  /\ ops < MaxStyleOps
  /\ state.map # Null
  /\ StyReturn([Now EXCEPT !.engine = changeStyle(@)], "changeStyle", timers)

\* The engine's 'idle' event: the style is loaded, and every listener that
\* changeStyle registered with once starts handleStyleLoaded, which awaits
\* loadMarkerIcons.
StyIdle ==
  /\ ~engine.styleLoaded \/ engine.idleListeners > 0
  /\ StyReturn([Now EXCEPT !.engine.styleLoaded = TRUE, !.engine.idleListeners = 0], "idle",
               [timers EXCEPT !.iconLoads = @ + engine.idleListeners])

\* The icons of one handleStyleLoaded are loaded: it sets its timer.
StyIconsLoaded ==
  /\ timers.iconLoads > 0
  /\ StyReturn(Now, "loadMarkerIcons",
               [timers EXCEPT !.iconLoads = @ - 1, !.styleTimers = @ + 1])

\* A timer of handleStyleLoaded fires after STYLE_LOAD_BUFFER_MS.
StyTimerFires ==
  /\ timers.styleTimers > 0
  /\ StyReturn(styleLoadedCallback(Now, ops + 1), "handleStyleLoaded",
               [timers EXCEPT !.styleTimers = @ - 1])

NextStyle ==
  \/ StyRegenerateData
  \/ StySwitchMode
  \/ StySetVolumeFilter
  \/ StyChangeStyle
  \/ StyIdle
  \/ StyIconsLoaded
  \/ StyTimerFires

InitStyle ==
  Loaded([key \in {<<"*">>} |-> <<"autoPersist">>], MapHandle,
         [NoEngine EXCEPT !.styleLoaded = TRUE])

\* A pending timer of handleStyleLoaded is taken off the pending ones, which is
\* what StyTimerFires, and no other action, does to the timers.
StyleTimerRuns ==
  /\ timers.styleTimers > 0
  /\ timers' = [timers EXCEPT !.styleTimers = @ - 1]

\* The engine reaches idle after a style was set, the images (data URLs) load,
\* and a timer that is pending fires.
SpecStyle ==
  /\ InitStyle /\ [][NextStyle]_vars
  /\ WF_vars(StyIdle) /\ WF_vars(StyIconsLoaded) /\ WF_timers(StyleTimerRuns)

\* A style is loading while there is a dataset.
StyleLoading == state.map # Null /\ state.geoJSON # Null /\ ~engine.styleLoaded

\* The timer of handleStyleLoaded has just run its rebuild with the style
\* loaded, and the engine holds the source and layers of the current mode and
\* filters (no layer of a style before when no point passes the filters).
RebuiltAfterStyleLoad ==
  /\ lastOp.name = "handleStyleLoaded" /\ engine.styleLoaded
  /\ lastOp.value = Num(10 * Len(ReferenceFilter(state.rawData.items, state.filters)))
  /\ \/ EngineShows(engine, state)
     \/ Len(ReferenceFilter(state.rawData.items, state.filters)) = 0

\* C37: whenever a style is loading while a dataset exists, also after several
\* overlapping style, mode and filter changes, there comes a moment at which
\* the timer of handleStyleLoaded has rebuilt for the mode and filters current
\* at that moment with the style loaded.
C37_StyleChangeLeadsToRebuild == StyleLoading ~> RebuiltAfterStyleLoad

\* A rebuild after two overlapping style changes shows a mode that was chosen
\* while the style was loading.
C37_Witness ==
  /\ RebuiltAfterStyleLoad /\ EngineShows(engine, state)
  /\ state.mode # Str("clusters") /\ engine.layers # << >>
  /\ timers.styleTimers > 0

----------------------------------------------------------------------------
\* The filter of the selectors next to the filter of the layer module

\* Datasets of a restaurant and a shop with every pair of volumes from 1 to 10.
VolumeDatasets ==
  { << <<"Restaurant", 10 * v, -740, 407>>, <<"Shop", 10 * w, -1182, 340>> >> :
      v \in 1..10, w \in 1..10 }

FilterSettings ==
  [volume : FilterValues("volume"), category : {Str("all"), Str("Restaurant"), Str("Shop")}]

FilReturn(W, name, value, ret) ==
  /\ state' = W.store.state
  /\ batchMode' = W.store.batchMode
  /\ pendingNotifications' = W.store.pendingNotifications
  /\ calls' = W.store.calls
  /\ selectors' = W.selectors
  /\ engine' = W.engine
  /\ lastOp' = [NoOp EXCEPT !.name = name, !.value = value, !.ret = ret,
                            !.threw = W.store.threw, !.before = lastOp.name]
  /\ ops' = ops + 1
  /\ UNCHANGED <<obsVars, subscribers, pc, fnWrites, returned, seen, storage>>

\* regenerateData(): rawData and the geoJSON made of it.
FilRegenerateData ==
  \E dataset \in IF state.geoJSON = Null THEN VolumeDatasets ELSE Datasets :
    /\ ops < MaxFilOps
    /\ FilReturn(regenerateData(Now, MakeData(ops + 1, dataset), ops + 1), "regenerateData",
                 Undefined, TRUE)

\* The two selects of the filter panel: setFilter for each.
FilSetFilters ==
  \E filters \in FilterSettings :
    /\ ops < MaxFilOps
    /\ filters # state.filters
    /\ FilReturn([Now EXCEPT !.store = setFilter(setFilter(@, "volume", filters.volume),
                                                 "category", filters.category)],
                 "setFilter", Undefined, TRUE)

\* getFilteredData() and getFilteredCount() of the selectors, then
\* applyFilters(getGeoJSON()) and getFilteredCount(getGeoJSON()) of the layer
\* module; value holds what the selectors gave, ret what the layer module gave.
FilApplyFilters ==
  /\ ops < MaxFilOps
  /\ LET data == getFilteredData(selectors, state, ops + 1)
         count == getFilteredCount(data.selectors, state, ops + 1)
         applied == applyFilters(state.geoJSON, state.filters)
     IN FilReturn([Now EXCEPT !.selectors = count.selectors], "applyFilters",
                  [ids |-> PointIds(data.result.items), count |-> count.result],
                  [ids |-> IF applied.result \in {Null, Undefined} THEN << >>
                           ELSE PointIds(applied.result.features),
                   count |-> getFilteredCountOfLayers(state.geoJSON, state.filters),
                   threw |-> applied.threw])

NextFil ==
  \/ FilRegenerateData
  \/ FilSetFilters
  \/ FilApplyFilters

SpecFil == InitSel /\ [][NextFil]_vars

\* C38: for the datasets with volumes from 1 to 10 and their geoJSON, and every
\* setting of the two filters, getFilteredData selects the points applyFilters
\* selects from the geoJSON, in the same order, and the selector
\* getFilteredCount gives the number getFilteredCount of the layer module gives.
C38_SelectorAgreesWithApplyFilters ==
  lastOp.name = "applyFilters" =>
    /\ ~lastOp.ret.threw
    /\ lastOp.value.ids = lastOp.ret.ids
    /\ lastOp.value.count = lastOp.ret.count
    /\ lastOp.value.count = Num(10 * Len(lastOp.value.ids))

\* The two agreed on one point of two under a volume filter.
C38_Witness ==
  /\ lastOp.name = "applyFilters" /\ lastOp.before = "setFilter"
  /\ state.filters.volume = Str("medium") /\ state.filters.category = Str("all")
  /\ Len(state.rawData.items) = 2
  /\ state.rawData.items[1].recyclingVolume = Num(30)
  /\ state.rawData.items[2].recyclingVolume = Num(40)
  /\ lastOp.ret.ids = << state.rawData.items[2].id >>
  /\ lastOp.value.ids = lastOp.ret.ids

----------------------------------------------------------------------------
\* Paint updates next to the layer factories

\* The layer of the given id as the factory of its mode makes it from st.
FactoryLayer(st, id) ==
  LET made == createLayersForMode(
                [st EXCEPT !.mode = IF id = "heatmap" THEN Str("heatmap") ELSE Str("clusters")])
  IN made[CHOOSE i \in 1..Len(made) : made[i].id = id]

\* The layers of E with one of the ids carry, in each of the paint properties,
\* the value the factory gives for st.
PaintedAsFactory(E, st, ids, properties) ==
  \A i \in 1..Len(E.layers) :
    E.layers[i].id \in ids =>
      \A property \in properties :
        E.layers[i].props[property] = FactoryLayer(st, E.layers[i].id).props[property]

\* C39: after handleClusterOpacityChange the circle-opacity of the cluster
\* layers in the engine is the one createClusterLayers gives for the stored
\* opacity (o, o x 0.5 on the cluster glow, o x 0.4 on the unclustered glow),
\* after updateHeatmap the intensity, radius and opacity of the heatmap layer
\* are those createHeatmapLayers gives for the stored settings, and when the
\* engine showed the state before the handler, it holds afterwards the source
\* and layers a rebuildForMode would leave.
C39_PaintUpdateEqualsRebuild ==
  [][ /\ IsCallOf({"handleClusterOpacityChange"}) =>
           PaintedAsFactory(engine', state',
                            {"clusters", "clusters-glow", "unclustered-point",
                             "unclustered-point-glow"},
                            {"circleOpacity"})
      /\ IsCallOf({"updateHeatmap"}) =>
           PaintedAsFactory(engine', state', {"heatmap"},
                            {"heatmapIntensity", "heatmapRadius", "heatmapOpacity"})
      /\ /\ IsCallOf({"handleClusterOpacityChange", "updateHeatmap"})
         /\ engine.styleLoaded /\ EngineShows(engine, state)
         => LET rebuilt == rebuildForMode(Now', 0).engine
            IN /\ engine'.layers = rebuilt.layers
               /\ engine'.source = rebuilt.source
               /\ EngineShows(engine', state') ]_vars

\* handleClusterOpacityChange(0.5) painted the four cluster layers.
C39_Witness ==
  /\ lastOp.name = "handleClusterOpacityChange"
  /\ state.cluster.opacity = Num(5)
  /\ Len(engine.log) = 4
  /\ \E i, j, k \in 1..Len(engine.layers) :
       /\ engine.layers[i].id = "clusters" /\ engine.layers[i].props.circleOpacity = 50
       /\ engine.layers[j].id = "clusters-glow" /\ engine.layers[j].props.circleOpacity = 25
       /\ engine.layers[k].id = "unclustered-point-glow"
       /\ engine.layers[k].props.circleOpacity = 20

\* updateHeatmap painted the heatmap layer with the three settings.
C39_WitnessHeatmap ==
  /\ lastOp.name = "updateHeatmap"
  /\ state.heatmap.radius = Num(300)
  /\ Len(engine.log) = 3
  /\ PaintedAsFactory(engine, state, {"heatmap"},
                      {"heatmapIntensity", "heatmapRadius", "heatmapOpacity"})

----------------------------------------------------------------------------
\* The list of all layer ids

\* The ids of the layers the factory of the mode of st creates.
FactoryLayerIds(st) == { createLayersForMode(st)[i].id : i \in 1..Len(createLayersForMode(st)) }

\* C40: getAllLayerIds() has no undefined entry and holds every id that
\* getActiveLayerIds() returns, and every id the layer factory creates, for
\* the mode of the state.
C40_AllLayerIdsIsSuperset ==
  /\ Undefined \notin Range(getAllLayerIds)
  /\ \A id \in Range(getActiveLayerIds(state)) \cup FactoryLayerIds(state) :
       Str(id) \in Range(getAllLayerIds)

\* The entries of getAllLayerIds() that are defined are ids of the layer
\* module's own list, which removeAllLayers uses and which does hold every id
\* of every mode.
DefinedEntriesAreLayerIds ==
  /\ \A entry \in Range(getAllLayerIds) :
       entry # Undefined => \E i \in 1..Len(ALL_LAYER_IDS) : entry = Str(ALL_LAYER_IDS[i])
  /\ Range(getActiveLayerIds(state)) \cup FactoryLayerIds(state) \subseteq Range(ALL_LAYER_IDS)

\* getActiveLayerIds() has returned an id that getAllLayerIds() does not hold.
ActiveIdMissing ==
  /\ lastOp.name = "getActiveLayerIds"
  /\ state.mode = Str("markers")
  /\ \E id \in Range(getActiveLayerIds(state)) : Str(id) \notin Range(getAllLayerIds)

====
